---------------------------- MODULE Spec2Model ----------------------------
(***************************************************************************)
(* Black Knight: Sword of Rage ramp chaser (bksor_chaser.ino).             *)
(*                                                                         *)
(* The sensor-driven revision: the loop reads the frame clock, renders     *)
(* the active animation into leds[] when its delay has run down            *)
(* (updateAnimation) and then evaluates the flail sensor                   *)
(* (updateAnimationType).  Every source function is a pure operator from   *)
(* the record of the program's globals to the record after the call; the   *)
(* actions apply them to the variables.                                    *)
(***************************************************************************)
EXTENDS Integers, Sequences, FiniteSets, TLC

\* ------------------------------------------------------------ #defines
NUM_ANIMATION_LEDS == 28
LEDS_PER_STRIP == 14
LEFT_STRIP_INDEX == 0
RIGHT_STRIP_INDEX == 14
COLOUR_SEQUENCE_SIZE == 11
COLOUR_SEQUENCE_SIZE_SHORT == 7
COLOUR_DATA_LENGTH == 22

ANIMATION_DELAY_CHASE == 50
ANIMATION_DELAY_OFFSET_CHASE == 40
ANIMATION_DELAY_GLOW == 45
ANIMATION_DELAY_CROSS == 45
ANIMATION_DELAY_ZIPPY == 30
ANIMATION_DELAY_ZIPPY_CROSS == 30
ANIMATION_DELAY_DECAY == 0
ANIMATION_DELAY_NONE == 0

ANIMATION_TYPE_CHASE == 0
ANIMATION_TYPE_OFFSET_CHASE == 1
ANIMATION_TYPE_GLOW == 2
ANIMATION_TYPE_CROSS == 3
ANIMATION_TYPE_ZIPPY == 4
ANIMATION_TYPE_ZIPPY_CROSS == 5
ANIMATION_TYPE_DECAY == 6
ANIMATION_TYPE_NONE == 7

ANIMATION_DIRECTION_UP == 1
ANIMATION_DIRECTION_DOWN == -1

FLAIL_STATE_UNKNOWN == 0
FLAIL_STATE_OPEN == 1
FLAIL_STATE_CLOSED == 2
FLAIL_STATE_MOVING == 3

ANIMATION_CHANGE_UNSTABLE == 350
ANIMATION_CHANGE_COOLDOWN == 600

\* digitalRead's two levels
LOW == 0
HIGH == 1

\* ------------------------------------------------------------ bounds
\* The free sensor may change during the first MaxTime ms after setup.
MaxTime == 1200
\* analogRead(DATA_PIN_RANDOM) seeds the generator with one of 0..MaxSeed.
MaxSeed == 1
\* Period of the pseudo-random stream standing for the core's random().
RandPeriod == 61
\* The render functions run on their own for MaxRenderTime ms.
MaxRenderTime == 2000
\* The render functions run with overrunning iterations for MaxLagTime ms.
MaxLagTime == 700
\* The timer-driven sketch runs until its MaxSwitches-th switch of animation.
MaxSwitches == 6
\* The flips since the last commit are counted up to FlipCap.
FlipCap == 9
\* The flail is kept moving for MaxFlailTime ms.
MaxFlailTime == 34000

\* Elapsed times one loop iteration may take (ms), free sensor.
DeltaTimes == {0, 50, 600}
\* Loop step lengths of the flip-storm scenario.
StepLens == {20, 50, 100}

\* ------------------------------------------------------------ C arithmetic
\* An int of the target is 16 bits wide: a conversion keeps the low 16 bits.
ToInt16(x) == ((x + 32768) % 65536) - 32768

\* C's integer division truncates toward zero.
CDiv(a, b) == IF a >= 0 THEN a \div b ELSE -((-a) \div b)

Min(a, b) == IF a < b THEN a ELSE b
Max(a, b) == IF a > b THEN a ELSE b

\* ------------------------------------------------------------ colours
LedIndexes == 0 .. (NUM_ANIMATION_LEDS - 1)
SeqIndexes == 0 .. (COLOUR_SEQUENCE_SIZE - 1)

CRGB(r, g, b) == <<r, g, b>>
Black == CRGB(0, 0, 0)

colourScheme ==
  << 255, 154,  255, 122,  255, 90,  255, 0,  128, 0,  64, 0,  32, 0,
     0, 0,  0, 0,  0, 0,  0, 0 >>

\* setup(): colourSequence[i >> 1] = CRGB(colourScheme[i], colourScheme[i + 1], 0)
colourSequence ==
  [k \in SeqIndexes |-> CRGB(colourScheme[2 * k + 1], colourScheme[2 * k + 2], 0)]

\* A read of colourSequence[k]: past the array the value is whatever lies
\* behind it in memory, here junk[k].
ReadColour(k, junk) ==
  IF k \in SeqIndexes
    THEN colourSequence[k]
    ELSE IF k \in DOMAIN junk THEN junk[k] ELSE CRGB(0, 0, 0)

\* ------------------------------------------------------------ random()
\* The k-th draw from generator state s; random(lo, hi) is in lo .. hi-1.
RandRaw(s) == (s * 37 + (s \div 3) * 11 + 5) % 101
Random(s, k, lo, hi) == lo + (RandRaw((s + k) % RandPeriod) % (hi - lo))
RandAdvance(s, n) == (s + n) % RandPeriod


\* ------------------------------------------------------------ globals
\* The record of the program's globals after static initialisation
\* (lines 75-112), with the generator state and, per call, what the last
\* render wrote (ledWrites), which colourSequence entries it read (seqReads)
\* and the locals of the last sensor evaluation.
Globals(seed) ==
  [ animationType              |-> ANIMATION_TYPE_NONE,
    animationTypeDelay         |-> 0,
    animationDelay             |-> 0,
    flailStateLockedIn         |-> FLAIL_STATE_UNKNOWN,
    flailStateDesired          |-> FLAIL_STATE_UNKNOWN,
    flailStateChangeCountdown  |-> 0,
    flailStateUnstableDuration |-> 0,
    colourSequenceIndex        |-> 0,
    glowDirection              |-> ANIMATION_DIRECTION_UP,
    zippyDirection             |-> ANIMATION_DIRECTION_UP,
    zippyAnimateIndex          |-> 0,
    decayActiveDelays          |-> [i \in LedIndexes |-> 0],
    decayResetDelays           |-> [i \in LedIndexes |-> 0],
    decayColourIndexes         |-> [i \in LedIndexes |-> 0],
    leds                       |-> [i \in LedIndexes |-> Black],
    randState                  |-> seed,
    ledWrites                  |-> {},
    seqReads                   |-> {},
    flailStateDetected         |-> FLAIL_STATE_UNKNOWN,
    switchToAnimationType      |-> ANIMATION_TYPE_NONE ]

\* leds[i] = c.  A store outside the array is recorded and leaves leds alone.
Store(g, i, c) ==
  [g EXCEPT !.leds = IF i \in LedIndexes THEN [@ EXCEPT ![i] = c] ELSE @,
            !.ledWrites = @ \cup {i}]

\* leds[i] = colourSequence[k]
StoreSeq(g, i, k, junk) ==
  [Store(g, i, ReadColour(k, junk)) EXCEPT !.seqReads = @ \cup {k}]

\* leds[i] read as a value
LedAt(g, i) == IF i \in LedIndexes THEN g.leds[i] ELSE Black

\* ------------------------------------------------------------ resetLEDState
\* A for loop is a recursion on its index.  Each loop reads the value it is
\* handed (the second conjunct of its test, always true) before it recurses,
\* so that the nested updates are evaluated one iteration at a time.
RECURSIVE ResetLoop(_, _)
ResetLoop(l, i) ==
  IF i < NUM_ANIMATION_LEDS /\ DOMAIN l = LedIndexes
    THEN ResetLoop([l EXCEPT ![i] = CRGB(0, 0, 0)], i + 1)
    ELSE l

resetLEDState(g) == [g EXCEPT !.leds = ResetLoop(@, 0)]

\* ------------------------------------------------------------ initAnimationType
\* The Decay case's loop: LED i takes two draws, its delay and its index.
RECURSIVE InitDecayLoop(_, _)
InitDecayLoop(g, i) ==
  IF i < NUM_ANIMATION_LEDS /\ g.randState \in Nat
    THEN LET newDelay == 35 + (Random(g.randState, 0, 0, 6) * 5)
             index    == Random(g.randState, 1, 0, 9)
         IN  InitDecayLoop(
               [g EXCEPT !.decayActiveDelays[i] = newDelay,
                         !.decayResetDelays[i] = newDelay,
                         !.decayColourIndexes[i] = index,
                         !.randState = RandAdvance(@, 2)],
               i + 1)
    ELSE g

initAnimationType(g, animType) ==
  CASE animType = ANIMATION_TYPE_CHASE ->
         [g EXCEPT !.animationDelay = ANIMATION_DELAY_CHASE,
                   !.animationTypeDelay = ANIMATION_DELAY_CHASE,
                   !.colourSequenceIndex = 0]
    [] animType = ANIMATION_TYPE_OFFSET_CHASE ->
         [g EXCEPT !.animationDelay = ANIMATION_DELAY_OFFSET_CHASE,
                   !.animationTypeDelay = ANIMATION_DELAY_OFFSET_CHASE,
                   !.colourSequenceIndex = 0]
    [] animType = ANIMATION_TYPE_GLOW ->
         [g EXCEPT !.animationDelay = ANIMATION_DELAY_GLOW,
                   !.animationTypeDelay = ANIMATION_DELAY_GLOW,
                   !.colourSequenceIndex = 0,
                   !.glowDirection = ANIMATION_DIRECTION_UP]
    [] animType = ANIMATION_TYPE_CROSS ->
         [g EXCEPT !.animationDelay = ANIMATION_DELAY_CROSS,
                   !.animationTypeDelay = ANIMATION_DELAY_CROSS,
                   !.colourSequenceIndex = 0,
                   !.glowDirection = ANIMATION_DIRECTION_UP]
    [] animType = ANIMATION_TYPE_ZIPPY ->
         [g EXCEPT !.animationDelay = ANIMATION_DELAY_ZIPPY,
                   !.animationTypeDelay = ANIMATION_DELAY_ZIPPY,
                   !.zippyDirection = ANIMATION_DIRECTION_UP,
                   !.zippyAnimateIndex = 0]
    [] animType = ANIMATION_TYPE_ZIPPY_CROSS ->
         [g EXCEPT !.animationDelay = ANIMATION_DELAY_ZIPPY_CROSS,
                   !.animationTypeDelay = ANIMATION_DELAY_ZIPPY_CROSS,
                   !.zippyDirection = ANIMATION_DIRECTION_UP,
                   !.zippyAnimateIndex = 0]
    [] animType = ANIMATION_TYPE_DECAY ->
         InitDecayLoop(
           [g EXCEPT !.animationDelay = ANIMATION_DELAY_DECAY,
                     !.animationTypeDelay = ANIMATION_DELAY_DECAY],
           0)
    [] OTHER -> g

\* ------------------------------------------------------------ animationChase
\* for (i = LEDS_PER_STRIP - 2; i >= 0; i--) leds[i + 1] = leds[i]
RECURSIVE ChaseLeftLoop(_, _)
ChaseLeftLoop(g, i) ==
  IF i >= 0 /\ g.randState \in Nat
    THEN ChaseLeftLoop(Store(g, i + 1, LedAt(g, i)), i - 1)
    ELSE g

\* for (i = 0; i <= LEDS_PER_STRIP - 2; i++) leds[14 + i] = leds[14 + i + 1]
RECURSIVE ChaseRightLoop(_, _)
ChaseRightLoop(g, i) ==
  IF i <= LEDS_PER_STRIP - 2 /\ g.randState \in Nat
    THEN ChaseRightLoop(
           Store(g, RIGHT_STRIP_INDEX + i, LedAt(g, RIGHT_STRIP_INDEX + i + 1)),
           i + 1)
    ELSE g

\* Mutant: the offset added without the adjustment of lines 371-374.
RightLEDStripColourIndexUnadjusted(index, animateWithOffset) ==
  IF animateWithOffset
    THEN index + COLOUR_SEQUENCE_SIZE_SHORT
    ELSE index

\* The colour index fed to the right strip.
RightLEDStripColourIndex(index, animateWithOffset) ==
  IF animateWithOffset
    THEN LET shifted == index + COLOUR_SEQUENCE_SIZE_SHORT
         IN  IF shifted >= COLOUR_SEQUENCE_SIZE
               THEN shifted - (COLOUR_SEQUENCE_SIZE - 1)
               ELSE shifted
    ELSE index

\* Mutant: the colour index looping at the length of the short sequence.
ChaseAdvanceShort(index) ==
  IF index + 1 = COLOUR_SEQUENCE_SIZE_SHORT THEN 0 ELSE index + 1

\* colourSequenceIndex++, looping once all colours are rendered.
ChaseAdvance(index) ==
  IF index + 1 = COLOUR_SEQUENCE_SIZE THEN 0 ELSE index + 1

animationChase(g, animateWithOffset, junk) ==
  LET shifted == ChaseRightLoop(ChaseLeftLoop(g, LEDS_PER_STRIP - 2), 0)
      rightLEDStripColourIndex ==
        RightLEDStripColourIndex(g.colourSequenceIndex, animateWithOffset)
      fed == StoreSeq(
               StoreSeq(shifted, LEFT_STRIP_INDEX, g.colourSequenceIndex, junk),
               NUM_ANIMATION_LEDS - 1, rightLEDStripColourIndex, junk)
  IN  [fed EXCEPT !.colourSequenceIndex = ChaseAdvance(g.colourSequenceIndex)]

\* ------------------------------------------------------------ animationGlow
\* Mutant: the direction swapped at a barrier without the step back of
\* lines 409 and 433.
PingPongNoStepBack(g) ==
  LET moved == g.colourSequenceIndex + g.glowDirection
  IN  IF moved < 0 \/ moved = COLOUR_SEQUENCE_SIZE
        THEN [g EXCEPT !.glowDirection = @ * (-1),
                       !.colourSequenceIndex = moved]
        ELSE [g EXCEPT !.colourSequenceIndex = moved]

\* colourSequenceIndex += glowDirection, turning round at a barrier
PingPong(g) ==
  LET moved == g.colourSequenceIndex + g.glowDirection
      swapped == g.glowDirection * (-1)
  IN  IF moved < 0 \/ moved = COLOUR_SEQUENCE_SIZE
        THEN [g EXCEPT !.glowDirection = swapped,
                       !.colourSequenceIndex = moved + swapped]
        ELSE [g EXCEPT !.colourSequenceIndex = moved]

RECURSIVE GlowLoop(_, _, _)
GlowLoop(g, i, junk) ==
  IF i < NUM_ANIMATION_LEDS /\ g.randState \in Nat
    THEN GlowLoop(StoreSeq(g, i, g.colourSequenceIndex, junk), i + 1, junk)
    ELSE g

animationGlow(g, junk) == PingPong(GlowLoop(g, 0, junk))

\* ------------------------------------------------------------ animationCross
\* Mutant: the right strip reading the cursor's colour, not its mirror.
RECURSIVE CrossLoopSame(_, _, _)
CrossLoopSame(g, i, junk) ==
  IF i < LEDS_PER_STRIP /\ g.randState \in Nat
    THEN CrossLoopSame(
           StoreSeq(StoreSeq(g, i, g.colourSequenceIndex, junk),
                    RIGHT_STRIP_INDEX + i, g.colourSequenceIndex, junk),
           i + 1, junk)
    ELSE g

RECURSIVE CrossLoop(_, _, _)
CrossLoop(g, i, junk) ==
  IF i < LEDS_PER_STRIP /\ g.randState \in Nat
    THEN LET inverseColourSequenceIndex ==
               (COLOUR_SEQUENCE_SIZE - 1) - g.colourSequenceIndex
         IN  CrossLoop(
               StoreSeq(StoreSeq(g, i, g.colourSequenceIndex, junk),
                        RIGHT_STRIP_INDEX + i, inverseColourSequenceIndex, junk),
               i + 1, junk)
    ELSE g

animationCross(g, junk) == PingPong(CrossLoop(g, 0, junk))

\* ------------------------------------------------------------ animationZippy
\* Indexes min(i, 13) past the colour table read what lies behind it.
OobReads == COLOUR_SEQUENCE_SIZE .. 13
JunkColours == {Black, CRGB(255, 255, 255)}

RECURSIVE ZippyLoop(_, _, _, _, _, _)
ZippyLoop(g, i, leftLEDStripWriteIndex, writeAdvance, oppositeStrips, junk) ==
  IF i <= g.zippyAnimateIndex
    THEN LET colourSequenceReadIndex == Min(i, 13)
             rightLEDStripWriteIndex ==
               IF oppositeStrips
                 THEN RIGHT_STRIP_INDEX + leftLEDStripWriteIndex
                 ELSE 27 - leftLEDStripWriteIndex
         IN  ZippyLoop(
               StoreSeq(
                 StoreSeq(g, leftLEDStripWriteIndex, colourSequenceReadIndex, junk),
                 rightLEDStripWriteIndex, colourSequenceReadIndex, junk),
               i + 1, leftLEDStripWriteIndex + writeAdvance, writeAdvance,
               oppositeStrips, junk)
    ELSE g

\* Mutant: the first LED without the min() and max() of line 444.
ZippyLeftStartUnclamped(direction, index) ==
  IF direction = ANIMATION_DIRECTION_UP
    THEN index
    ELSE 13 - index

\* The first LED the left strip writes.
ZippyLeftStart(direction, index) ==
  IF direction = ANIMATION_DIRECTION_UP
    THEN Min(13, index)
    ELSE Max(13 - index, 0)

animationZippy(g, oppositeStrips, junk) ==
  LET readColourIndexStart ==
        IF g.zippyAnimateIndex >= LEDS_PER_STRIP
          THEN g.zippyAnimateIndex - 13
          ELSE 0
      leftLEDStripWriteIndex ==
        ZippyLeftStart(g.zippyDirection, g.zippyAnimateIndex)
      writeAdvance == -g.zippyDirection
      drawn == ZippyLoop(g, readColourIndexStart, leftLEDStripWriteIndex,
                         writeAdvance, oppositeStrips, junk)
      next == g.zippyAnimateIndex + 1
  IN  IF next = 30
        THEN [drawn EXCEPT !.zippyDirection = @ * (-1), !.zippyAnimateIndex = 0]
        ELSE [drawn EXCEPT !.zippyAnimateIndex = next]

\* ------------------------------------------------------------ animationDecay
\* Mutant: the countdown reloaded with the overshoot carried over, as
\* updateAnimation reloads animationDelay (line 200).
DecayLEDCarriesOvershoot(g, i, dt, junk) ==
  LET active == ToInt16(g.decayActiveDelays[i] - ToInt16(dt))
      ran    == [g EXCEPT !.decayActiveDelays[i] = active]
  IN  IF active > 0
        THEN ran
        ELSE LET advanced == g.decayColourIndexes[i] + 1
                 wrapped  == advanced = 10
                 index    == IF wrapped THEN 0 ELSE advanced
                 reset    == IF wrapped
                               THEN 35 + (Random(g.randState, 0, 0, 6) * 5)
                               ELSE g.decayResetDelays[i]
                 drawn    == [ran EXCEPT !.decayColourIndexes[i] = index,
                                         !.decayResetDelays[i] = reset,
                                         !.randState = IF wrapped
                                                         THEN RandAdvance(@, 1)
                                                         ELSE @]
             IN  [StoreSeq(drawn, i, index, junk)
                    EXCEPT !.decayActiveDelays[i] = ToInt16(active + reset)]

\* One LED of the loop: its countdown runs down by (int) deltaTime; at <= 0
\* its colour index advances, wraps at 10 with a new hold time drawn, the
\* LED takes the colour and the countdown is reloaded.
DecayLED(g, i, dt, junk) ==
  LET active == ToInt16(g.decayActiveDelays[i] - ToInt16(dt))
      ran    == [g EXCEPT !.decayActiveDelays[i] = active]
  IN  IF active > 0
        THEN ran
        ELSE LET advanced == g.decayColourIndexes[i] + 1
                 wrapped  == advanced = 10
                 index    == IF wrapped THEN 0 ELSE advanced
                 reset    == IF wrapped
                               THEN 35 + (Random(g.randState, 0, 0, 6) * 5)
                               ELSE g.decayResetDelays[i]
                 drawn    == [ran EXCEPT !.decayColourIndexes[i] = index,
                                         !.decayResetDelays[i] = reset,
                                         !.randState = IF wrapped
                                                         THEN RandAdvance(@, 1)
                                                         ELSE @]
             IN  [StoreSeq(drawn, i, index, junk)
                    EXCEPT !.decayActiveDelays[i] = reset]

RECURSIVE DecayLoop(_, _, _, _)
DecayLoop(g, i, dt, junk) ==
  IF i < NUM_ANIMATION_LEDS /\ g.randState \in Nat
    THEN DecayLoop(DecayLED(g, i, dt, junk), i + 1, dt, junk)
    ELSE g

animationDecay(g, dt, junk) == DecayLoop(g, 0, dt, junk)

\* ------------------------------------------------------------ updateAnimation
\* The switch on animationType.
Render(g, dt, junk) ==
  CASE g.animationType = ANIMATION_TYPE_CHASE -> animationChase(g, FALSE, junk)
    [] g.animationType = ANIMATION_TYPE_OFFSET_CHASE -> animationChase(g, TRUE, junk)
    [] g.animationType = ANIMATION_TYPE_GLOW -> animationGlow(g, junk)
    [] g.animationType = ANIMATION_TYPE_CROSS -> animationCross(g, junk)
    [] g.animationType = ANIMATION_TYPE_ZIPPY -> animationZippy(g, FALSE, junk)
    [] g.animationType = ANIMATION_TYPE_ZIPPY_CROSS -> animationZippy(g, TRUE, junk)
    [] g.animationType = ANIMATION_TYPE_DECAY -> animationDecay(g, dt, junk)
    [] OTHER -> g

\* Whether the frame is due once deltaTime has run off animationDelay.
FrameDue(delay) == ~(delay > 0)

updateAnimation(g, dt, junk) ==
  LET ran == [g EXCEPT !.animationDelay = ToInt16(@ - dt),
                       !.ledWrites = {},
                       !.seqReads = {}]
  IN  IF FrameDue(ran.animationDelay)
        THEN LET drawn == Render(ran, dt, junk)
             IN  [drawn EXCEPT !.animationDelay = ToInt16(@ + drawn.animationTypeDelay)]
        ELSE ran

\* ------------------------------------------------------------ updateAnimationType
\* digitalRead(DATA_PIN_SENSOR) == LOW means the flail is in the sensor's path.
FlailStateDetected(level) ==
  IF level = LOW THEN FLAIL_STATE_CLOSED ELSE FLAIL_STATE_OPEN

\* Mutant: the test of line 237 made on the Open state.
LockedAnimationTypeOpen(locked) ==
  IF locked = FLAIL_STATE_OPEN
    THEN ANIMATION_TYPE_GLOW
    ELSE ANIMATION_TYPE_OFFSET_CHASE

\* Mutant: the Open state switching to the plain chase.
LockedAnimationTypeChase(locked) ==
  IF locked = FLAIL_STATE_CLOSED
    THEN ANIMATION_TYPE_GLOW
    ELSE ANIMATION_TYPE_CHASE

\* Mutant: every newly locked state switches to the glow.
LockedAnimationTypeGlow(locked) ==
  IF locked = FLAIL_STATE_CLOSED
    THEN ANIMATION_TYPE_GLOW
    ELSE ANIMATION_TYPE_GLOW

\* The animation a newly locked state switches to (line 237).
LockedAnimationType(locked) ==
  IF locked = FLAIL_STATE_CLOSED
    THEN ANIMATION_TYPE_GLOW
    ELSE ANIMATION_TYPE_OFFSET_CHASE

\* Mutant: a flip weighs 90, not 45.
UnstableGrowthDouble(countdown) ==
  (1 - CDiv(countdown, ANIMATION_CHANGE_COOLDOWN)) * 90

\* The dampened growth of the unstable duration at a flip (line 243).
UnstableGrowth(countdown) ==
  (1 - CDiv(countdown, ANIMATION_CHANGE_COOLDOWN)) * 45

\* Mutant: the commit waits for the countdown to pass 0 (< for <=).
CountdownLate(g, dt) ==
  LET left == ToInt16(g.flailStateChangeCountdown - dt)
  IN  IF left < 0
        THEN [g EXCEPT !.flailStateChangeCountdown = 0,
                       !.flailStateUnstableDuration = 0,
                       !.flailStateLockedIn = g.flailStateDesired,
                       !.flailStateDesired = FLAIL_STATE_UNKNOWN,
                       !.switchToAnimationType =
                          LockedAnimationType(g.flailStateDesired)]
        ELSE [g EXCEPT !.flailStateChangeCountdown = left]

\* Mutant: the commit leaves the unstable duration as it is.
CountdownKeepsScore(g, dt) ==
  LET left == ToInt16(g.flailStateChangeCountdown - dt)
  IN  IF left <= 0
        THEN [g EXCEPT !.flailStateChangeCountdown = 0,
                       !.flailStateLockedIn = g.flailStateDesired,
                       !.flailStateDesired = FLAIL_STATE_UNKNOWN,
                       !.switchToAnimationType =
                          LockedAnimationType(g.flailStateDesired)]
        ELSE [g EXCEPT !.flailStateChangeCountdown = left]

\* Mutant: the animation of the desired state starts while the countdown runs.
CountdownEmitsEarly(g, dt) ==
  LET left == ToInt16(g.flailStateChangeCountdown - dt)
  IN  IF left <= 0
        THEN [g EXCEPT !.flailStateChangeCountdown = 0,
                       !.flailStateUnstableDuration = 0,
                       !.flailStateLockedIn = g.flailStateDesired,
                       !.flailStateDesired = FLAIL_STATE_UNKNOWN,
                       !.switchToAnimationType =
                          LockedAnimationType(g.flailStateDesired)]
        ELSE [g EXCEPT !.flailStateChangeCountdown = left,
                       !.switchToAnimationType =
                          LockedAnimationType(g.flailStateDesired)]

\* Mutant: the commit leaves the desired state set.
CountdownKeepsDesired(g, dt) ==
  LET left == ToInt16(g.flailStateChangeCountdown - dt)
  IN  IF left <= 0
        THEN [g EXCEPT !.flailStateChangeCountdown = 0,
                       !.flailStateUnstableDuration = 0,
                       !.flailStateLockedIn = g.flailStateDesired,
                       !.switchToAnimationType =
                          LockedAnimationType(g.flailStateDesired)]
        ELSE [g EXCEPT !.flailStateChangeCountdown = left]

\* The branch taken when the detected state is the desired one (lines 227-238).
Countdown(g, dt) ==
  LET left == ToInt16(g.flailStateChangeCountdown - dt)
  IN  IF left <= 0
        THEN [g EXCEPT !.flailStateChangeCountdown = 0,
                       !.flailStateUnstableDuration = 0,
                       !.flailStateLockedIn = g.flailStateDesired,
                       !.flailStateDesired = FLAIL_STATE_UNKNOWN,
                       !.switchToAnimationType =
                          LockedAnimationType(g.flailStateDesired)]
        ELSE [g EXCEPT !.flailStateChangeCountdown = left]

\* Mutant: Decay is switched to again while it is the active animation.
FlipAlwaysDecay(g) ==
  LET unstable == ToInt16(g.flailStateUnstableDuration
                            + UnstableGrowth(g.flailStateChangeCountdown))
  IN  [g EXCEPT !.flailStateDesired = g.flailStateDetected,
                !.flailStateUnstableDuration = unstable,
                !.flailStateChangeCountdown = ANIMATION_CHANGE_COOLDOWN,
                !.switchToAnimationType =
                   IF unstable > ANIMATION_CHANGE_UNSTABLE
                     THEN ANIMATION_TYPE_DECAY
                     ELSE ANIMATION_TYPE_NONE]

\* Mutant: a newly detected state is locked in at once, with no countdown.
FlipLocksAtOnce(g) ==
  [g EXCEPT !.flailStateLockedIn = g.flailStateDetected,
            !.flailStateDesired = FLAIL_STATE_UNKNOWN,
            !.flailStateChangeCountdown = 0,
            !.switchToAnimationType = LockedAnimationType(g.flailStateDetected)]

\* Mutant: the countdown is reloaded with half the cooldown.
FlipHalfCooldown(g) ==
  LET unstable == ToInt16(g.flailStateUnstableDuration
                            + UnstableGrowth(g.flailStateChangeCountdown))
  IN  [g EXCEPT !.flailStateDesired = g.flailStateDetected,
                !.flailStateUnstableDuration = unstable,
                !.flailStateChangeCountdown = CDiv(ANIMATION_CHANGE_COOLDOWN, 2),
                !.switchToAnimationType =
                   IF unstable > ANIMATION_CHANGE_UNSTABLE
                        /\ g.animationType # ANIMATION_TYPE_DECAY
                     THEN ANIMATION_TYPE_DECAY
                     ELSE ANIMATION_TYPE_NONE]

\* The branch taken when the detected state is a new one (lines 242-250).
Flip(g) ==
  LET unstable == ToInt16(g.flailStateUnstableDuration
                            + UnstableGrowth(g.flailStateChangeCountdown))
  IN  [g EXCEPT !.flailStateDesired = g.flailStateDetected,
                !.flailStateUnstableDuration = unstable,
                !.flailStateChangeCountdown = ANIMATION_CHANGE_COOLDOWN,
                !.switchToAnimationType =
                   IF unstable > ANIMATION_CHANGE_UNSTABLE
                        /\ g.animationType # ANIMATION_TYPE_DECAY
                     THEN ANIMATION_TYPE_DECAY
                     ELSE ANIMATION_TYPE_NONE]

\* Mutant: the new animation starts on the LEDs as they are.
SwitchAnimationKeepsLEDs(g) ==
  initAnimationType([g EXCEPT !.animationType = g.switchToAnimationType],
                    g.switchToAnimationType)

\* Lines 258-263: kick off a new animation state for the LED strips.
SwitchAnimation(g) ==
  resetLEDState(
    initAnimationType([g EXCEPT !.animationType = g.switchToAnimationType],
                      g.switchToAnimationType))

\* Mutant: line 218 compares with the desired state.
NoChangeInProgressDesired(g) ==
  /\ g.flailStateDetected = g.flailStateDesired
  /\ g.flailStateChangeCountdown = 0

\* Mutant: line 218 returns while a countdown runs, not when none does.
NoChangeInProgressPending(g) ==
  /\ g.flailStateDetected = g.flailStateLockedIn
  /\ g.flailStateChangeCountdown # 0

\* Line 218: the detected state is the locked one and no countdown runs.
NoChangeInProgress(g) ==
  /\ g.flailStateDetected = g.flailStateLockedIn
  /\ g.flailStateChangeCountdown = 0

updateAnimationType(g, dt, level) ==
  LET read == [g EXCEPT !.flailStateDetected = FlailStateDetected(level),
                        !.switchToAnimationType = ANIMATION_TYPE_NONE]
  IN  IF NoChangeInProgress(read)
        THEN read
        ELSE LET decided == IF read.flailStateDetected = g.flailStateDesired
                              THEN Countdown(read, dt)
                              ELSE Flip(read)
             IN  IF decided.switchToAnimationType = ANIMATION_TYPE_NONE
                   THEN decided
                   ELSE SwitchAnimation(decided)

\* ------------------------------------------------------------ setup
\* colourSequence is filled, the generator seeded, the LEDs switched off.
setup(g, seed) == resetLEDState([g EXCEPT !.randState = seed])

\* ============================================================ earlier revisions
\* The timer-driven sketch (src/unnamed/part_000) and the delay-driven sketch
\* (src/unnamed/part_002) drive two strips of 7 LEDs.  Their globals are the
\* fields of one record; the animation types 0..5, ANIMATION_DELAY_CHASE,
\* COLOUR_SEQUENCE_SIZE and the colour table have the values defined above.
EARLY_NUM_ANIMATION_LEDS == 14
EARLY_LEDS_PER_STRIP == 7
EARLY_RIGHT_STRIP_INDEX == 7

TIMED_ANIMATION_DELAY_OFFSET_CHASE == 50
TIMED_ANIMATION_DELAY_GLOW == 50
TIMED_ANIMATION_DELAY_CROSS == 50
TIMED_ANIMATION_DELAY_ZIPPY == 40
TIMED_ANIMATION_DELAY_ZIPPY_CROSS == 40
TIMED_ANIMATION_TYPE_NONE == 6

ZIPPY_DIRECTION_UP == 1
ZIPPY_DIRECTION_DOWN == 2

SWITCH_ANIMATE_DELAY == 5000

\* CRGB zippyMap[29]
ZIPPY_MAP_SIZE == 29

\* changeAnimationTypeCountdown = 80
CHANGE_ANIMATION_TYPE_COUNTDOWN == 80

EarlyLedIndexes == 0 .. (EARLY_NUM_ANIMATION_LEDS - 1)
ZippyMapIndexes == 0 .. (ZIPPY_MAP_SIZE - 1)

\* A read of colourSequence[k] whose value past the array is junk.
ReadColourEarly(k, junk) ==
  IF k \in SeqIndexes THEN colourSequence[k] ELSE junk

\* for (i = 0; i < NUM_ANIMATION_LEDS; i++) leds[i] = CRGB(0, 0, 0)
resetLEDStateEarly(s) ==
  [s EXCEPT !.leds = [i \in EarlyLedIndexes |-> CRGB(0, 0, 0)]]

\* The two shifting loops of the chase: leds[i + 1] = leds[i] for i = 5..0,
\* then leds[7 + i] = leds[7 + i + 1] for i = 0..5.
ChaseShiftEarly(leds) ==
  [i \in EarlyLedIndexes |->
     IF i \in 1 .. (EARLY_LEDS_PER_STRIP - 1)
       THEN leds[i - 1]
       ELSE IF i \in EARLY_RIGHT_STRIP_INDEX .. (EARLY_NUM_ANIMATION_LEDS - 2)
              THEN leds[i + 1]
              ELSE leds[i]]

\* colourSequenceIndex++, looping once all colours are rendered.
ChaseAdvanceEarly(index) ==
  IF index + 1 = COLOUR_SEQUENCE_SIZE THEN 0 ELSE index + 1

\* The feed of both strips: leds[0] = colourSequence[left],
\* leds[13] = colourSequence[right].
ChaseFeedEarly(s, left, right, junk) ==
  [s EXCEPT !.leds = [ChaseShiftEarly(@) EXCEPT
                        ![LEFT_STRIP_INDEX] = ReadColourEarly(left, junk),
                        ![EARLY_NUM_ANIMATION_LEDS - 1] =
                           ReadColourEarly(right, junk)],
            !.ledWrites = EarlyLedIndexes,
            !.seqReads = {left, right},
            !.colourSequenceIndex = ChaseAdvanceEarly(left)]

\* ------------------------------------------------------------ part_000
\* The globals of the timer-driven sketch as declared.
TimedGlobals ==
  [ revision            |-> "timer",
    animationType       |-> ANIMATION_TYPE_CHASE,
    animationTypeDelay  |-> ANIMATION_DELAY_CHASE,
    animationDelay      |-> ANIMATION_DELAY_CHASE,
    animationTimer      |-> SWITCH_ANIMATE_DELAY,
    colourSequenceIndex |-> 0,
    glowDirection       |-> 1,
    zippyMapDirection   |-> ZIPPY_DIRECTION_UP,
    zippyMapIndex       |-> COLOUR_SEQUENCE_SIZE - 1,
    zippyMap            |-> [k \in ZippyMapIndexes |-> CRGB(0, 0, 0)],
    leds                |-> [i \in EarlyLedIndexes |-> CRGB(0, 0, 0)],
    ledWrites           |-> {},
    seqReads            |-> {},
    mapWrites           |-> {} ]

\* setup(): zippyMap and the LEDs are set to black.
setupTimed(s) ==
  resetLEDStateEarly(
    [s EXCEPT !.zippyMap = [k \in ZippyMapIndexes |-> CRGB(0, 0, 0)]])

initAnimationTypeTimed(s, animType) ==
  CASE animType = ANIMATION_TYPE_CHASE ->
         [s EXCEPT !.animationDelay = ANIMATION_DELAY_CHASE,
                   !.animationTypeDelay = ANIMATION_DELAY_CHASE,
                   !.colourSequenceIndex = 0]
    [] animType = ANIMATION_TYPE_OFFSET_CHASE ->
         [s EXCEPT !.animationDelay = TIMED_ANIMATION_DELAY_OFFSET_CHASE,
                   !.animationTypeDelay = TIMED_ANIMATION_DELAY_OFFSET_CHASE,
                   !.colourSequenceIndex = 0]
    [] animType = ANIMATION_TYPE_GLOW ->
         [s EXCEPT !.animationDelay = TIMED_ANIMATION_DELAY_GLOW,
                   !.animationTypeDelay = TIMED_ANIMATION_DELAY_GLOW,
                   !.colourSequenceIndex = 0,
                   !.glowDirection = 1]
    [] animType = ANIMATION_TYPE_CROSS ->
         [s EXCEPT !.animationDelay = TIMED_ANIMATION_DELAY_CROSS,
                   !.animationTypeDelay = TIMED_ANIMATION_DELAY_CROSS,
                   !.colourSequenceIndex = 0,
                   !.glowDirection = 1]
    [] animType = ANIMATION_TYPE_ZIPPY ->
         [s EXCEPT !.animationDelay = TIMED_ANIMATION_DELAY_ZIPPY,
                   !.animationTypeDelay = TIMED_ANIMATION_DELAY_ZIPPY,
                   !.zippyMapDirection = ZIPPY_DIRECTION_UP]
    [] animType = ANIMATION_TYPE_ZIPPY_CROSS ->
         [s EXCEPT !.animationDelay = TIMED_ANIMATION_DELAY_ZIPPY_CROSS,
                   !.animationTypeDelay = TIMED_ANIMATION_DELAY_ZIPPY_CROSS,
                   !.zippyMapDirection = ZIPPY_DIRECTION_UP]
    [] OTHER -> s

animationChaseTimed(s, junk) ==
  ChaseFeedEarly(s, s.colourSequenceIndex, s.colourSequenceIndex, junk)

\* int offsetIndex = colourSequenceIndex + 7, brought back past the size.
offsetIndexTimed(index) ==
  LET offset == index + 7
  IN  IF offset > COLOUR_SEQUENCE_SIZE
        THEN offset - (COLOUR_SEQUENCE_SIZE - 1)
        ELSE offset

animationOffsetChaseTimed(s, junk) ==
  ChaseFeedEarly(s, s.colourSequenceIndex, offsetIndexTimed(s.colourSequenceIndex),
                 junk)

\* colourSequenceIndex += glowDirection, turning round at a barrier.
PingPongEarly(s) ==
  LET moved == s.colourSequenceIndex + s.glowDirection
      swapped == s.glowDirection * (-1)
  IN  IF moved < 0 \/ moved = COLOUR_SEQUENCE_SIZE
        THEN [s EXCEPT !.glowDirection = swapped,
                       !.colourSequenceIndex = moved + swapped]
        ELSE [s EXCEPT !.colourSequenceIndex = moved]

animationGlowTimed(s, junk) ==
  PingPongEarly(
    [s EXCEPT !.leds = [i \in EarlyLedIndexes |->
                          ReadColourEarly(s.colourSequenceIndex, junk)],
              !.ledWrites = EarlyLedIndexes,
              !.seqReads = {s.colourSequenceIndex}])

\* Both strips are written over all their LEDs: i < LEDS_PER_STRIP.
animationCrossTimed(s, junk) ==
  LET inverseColourSequenceIndex ==
        (COLOUR_SEQUENCE_SIZE - 1) - s.colourSequenceIndex
  IN  PingPongEarly(
        [s EXCEPT !.leds = [i \in EarlyLedIndexes |->
                              IF i < EARLY_RIGHT_STRIP_INDEX
                                THEN ReadColourEarly(s.colourSequenceIndex, junk)
                                ELSE ReadColourEarly(inverseColourSequenceIndex,
                                                     junk)],
                  !.ledWrites = EarlyLedIndexes,
                  !.seqReads = {s.colourSequenceIndex,
                                inverseColourSequenceIndex}])

\* for (i = 0; i < COLOUR_SEQUENCE_SIZE; i++)
\*   zippyMap[zippyMapIndex + sign * i] = colourSequence[i]
\* A write outside zippyMap lands in other memory; it is recorded in
\* mapWrites and leaves the map as it is.
ZippyMapFill(s, sign) ==
  [s EXCEPT !.zippyMap =
               [k \in ZippyMapIndexes |->
                  IF sign * (k - s.zippyMapIndex) \in SeqIndexes
                    THEN colourSequence[sign * (k - s.zippyMapIndex)]
                    ELSE @[k]],
            !.mapWrites =
               @ \cup {s.zippyMapIndex + sign * i : i \in SeqIndexes}]

\* The block run while zippyMapDirection is ZIPPY_DIRECTION_UP.
ZippyUp(s) ==
  IF s.zippyMapDirection = ZIPPY_DIRECTION_UP
    THEN LET filled == ZippyMapFill(s, -1)
         IN  IF filled.zippyMapIndex + 1 = 24
               THEN [filled EXCEPT !.zippyMapDirection = ZIPPY_DIRECTION_DOWN,
                                   !.zippyMapIndex = 18]
               ELSE [filled EXCEPT !.zippyMapIndex = @ + 1]
    ELSE s

\* The block run while zippyMapDirection is ZIPPY_DIRECTION_DOWN, in the
\* same call when the block above has just turned the direction.
ZippyDown(s) ==
  IF s.zippyMapDirection = ZIPPY_DIRECTION_DOWN
    THEN LET filled == ZippyMapFill(s, 1)
         IN  IF filled.zippyMapIndex - 1 = 4
               THEN [filled EXCEPT !.zippyMapDirection = ZIPPY_DIRECTION_UP,
                                   !.zippyMapIndex = 10]
               ELSE [filled EXCEPT !.zippyMapIndex = @ - 1]
    ELSE s

\* copy buffer segment to the LED strip for rendering
ZippyCopy(s, oppositeStrips) ==
  [s EXCEPT !.leds =
               [j \in EarlyLedIndexes |->
                  IF j < EARLY_LEDS_PER_STRIP
                    THEN s.zippyMap[COLOUR_SEQUENCE_SIZE + j]
                    ELSE LET i == EARLY_NUM_ANIMATION_LEDS - 1 - j
                             rightStripIndex ==
                               IF oppositeStrips
                                 THEN COLOUR_SEQUENCE_SIZE
                                        + EARLY_LEDS_PER_STRIP - i - 1
                                 ELSE COLOUR_SEQUENCE_SIZE + i
                         IN  s.zippyMap[rightStripIndex]],
            !.ledWrites = EarlyLedIndexes,
            !.seqReads = SeqIndexes]

animationZippyTimed(s, oppositeStrips) ==
  ZippyCopy(ZippyDown(ZippyUp(s)), oppositeStrips)

RenderTimed(s, junk) ==
  CASE s.animationType = ANIMATION_TYPE_CHASE -> animationChaseTimed(s, junk)
    [] s.animationType = ANIMATION_TYPE_OFFSET_CHASE ->
         animationOffsetChaseTimed(s, junk)
    [] s.animationType = ANIMATION_TYPE_GLOW -> animationGlowTimed(s, junk)
    [] s.animationType = ANIMATION_TYPE_CROSS -> animationCrossTimed(s, junk)
    [] s.animationType = ANIMATION_TYPE_ZIPPY -> animationZippyTimed(s, FALSE)
    [] s.animationType = ANIMATION_TYPE_ZIPPY_CROSS ->
         animationZippyTimed(s, TRUE)
    [] OTHER -> s

updateAnimationTimed(s, dt, junk) ==
  LET ran == [s EXCEPT !.animationDelay = ToInt16(@ - dt),
                       !.ledWrites = {},
                       !.seqReads = {},
                       !.mapWrites = {}]
  IN  IF ran.animationDelay > 0
        THEN ran
        ELSE LET drawn == RenderTimed(ran, junk)
             IN  [drawn EXCEPT !.animationDelay =
                                  ToInt16(@ + drawn.animationTypeDelay)]

\* animationType++, looping back to the start after the last type.
NextAnimationTypeTimed(type) ==
  IF type + 1 = TIMED_ANIMATION_TYPE_NONE THEN ANIMATION_TYPE_CHASE ELSE type + 1

updateAnimationTypeTimed(s, dt) ==
  LET left == ToInt16(s.animationTimer - dt)
  IN  IF left > 0
        THEN [s EXCEPT !.animationTimer = left]
        ELSE LET next == NextAnimationTypeTimed(s.animationType)
             IN  resetLEDStateEarly(
                   initAnimationTypeTimed(
                     [s EXCEPT !.animationTimer = SWITCH_ANIMATE_DELAY,
                               !.animationType = next],
                     next))

\* ------------------------------------------------------------ part_001
\* animationChase(animateWithOffset) of the second timer-driven sketch: the
\* colour index it feeds to the right strip.
rightLEDStripColourIndexEarly(index, animateWithOffset) ==
  IF animateWithOffset
    THEN LET offset == index + 7
         IN  IF offset > COLOUR_SEQUENCE_SIZE
               THEN offset - (COLOUR_SEQUENCE_SIZE - 1)
               ELSE offset
    ELSE index

\* ------------------------------------------------------------ part_002
\* The globals of the delay-driven sketch as declared.
DelayedGlobals ==
  [ revision                     |-> "delay",
    animationType                |-> ANIMATION_TYPE_CHASE,
    colourSequenceIndex          |-> 0,
    changeAnimationTypeCountdown |-> CHANGE_ANIMATION_TYPE_COUNTDOWN,
    glowDirection                |-> 1,
    leds                         |-> [i \in EarlyLedIndexes |-> CRGB(0, 0, 0)],
    ledWrites                    |-> {},
    seqReads                     |-> {} ]

animationChaseDelayed(s, junk) ==
  ChaseFeedEarly(s, s.colourSequenceIndex, s.colourSequenceIndex, junk)

offsetIndexDelayed(index) ==
  LET offset == index + 7
  IN  IF offset > COLOUR_SEQUENCE_SIZE
        THEN offset - (COLOUR_SEQUENCE_SIZE - 1)
        ELSE offset

animationOffsetChaseDelayed(s, junk) ==
  ChaseFeedEarly(s, s.colourSequenceIndex,
                 offsetIndexDelayed(s.colourSequenceIndex), junk)

animationGlowDelayed(s, junk) ==
  PingPongEarly(
    [s EXCEPT !.leds = [i \in EarlyLedIndexes |->
                          ReadColourEarly(s.colourSequenceIndex, junk)],
              !.ledWrites = EarlyLedIndexes,
              !.seqReads = {s.colourSequenceIndex}])

\* The LEDs one Cross frame writes: i < LEDS_PER_STRIP - 1 on both strips.
CrossWritesDelayed ==
  { i : i \in 0 .. (EARLY_LEDS_PER_STRIP - 2) }
    \cup { EARLY_RIGHT_STRIP_INDEX + i : i \in 0 .. (EARLY_LEDS_PER_STRIP - 2) }

animationCrossDelayed(s, junk) ==
  LET inverseColourSequenceIndex ==
        (COLOUR_SEQUENCE_SIZE - 1) - s.colourSequenceIndex
  IN  PingPongEarly(
        [s EXCEPT !.leds = [i \in EarlyLedIndexes |->
                              IF i \notin CrossWritesDelayed
                                THEN @[i]
                                ELSE IF i < EARLY_RIGHT_STRIP_INDEX
                                  THEN ReadColourEarly(s.colourSequenceIndex,
                                                       junk)
                                  ELSE ReadColourEarly(
                                         inverseColourSequenceIndex, junk)],
                  !.ledWrites = CrossWritesDelayed,
                  !.seqReads = {s.colourSequenceIndex,
                                inverseColourSequenceIndex}])

\* loop(): the animation of the current type, then show and delay.
RenderDelayed(s, junk) ==
  LET ran == [s EXCEPT !.ledWrites = {}, !.seqReads = {}]
  IN  CASE s.animationType = ANIMATION_TYPE_CHASE ->
             animationChaseDelayed(ran, junk)
        [] s.animationType = ANIMATION_TYPE_OFFSET_CHASE ->
             animationOffsetChaseDelayed(ran, junk)
        [] s.animationType = ANIMATION_TYPE_GLOW -> animationGlowDelayed(ran, junk)
        [] s.animationType = ANIMATION_TYPE_CROSS ->
             animationCrossDelayed(ran, junk)
        [] OTHER -> ran

updateAnimationTypeDelayed(s) ==
  IF s.changeAnimationTypeCountdown - 1 = 0
    THEN resetLEDStateEarly(
           [s EXCEPT !.changeAnimationTypeCountdown =
                        CHANGE_ANIMATION_TYPE_COUNTDOWN,
                     !.colourSequenceIndex = 0,
                     !.animationType =
                        IF @ + 1 > ANIMATION_TYPE_CROSS
                          THEN ANIMATION_TYPE_CHASE
                          ELSE @ + 1])
    ELSE [s EXCEPT !.changeAnimationTypeCountdown = @ - 1]

\* No earlier sketch runs.
NoSketch == [revision |-> "none"]

\* The sketch a driver runs.
SketchOf(d) ==
  CASE d.kind = "timer" -> TimedGlobals
    [] d.kind = "delay" -> DelayedGlobals
    [] OTHER -> NoSketch

\* ------------------------------------------------------------ state
VARIABLES
  \* the program's globals
  animationType, animationTypeDelay, animationDelay, deltaTime,
  flailStateLockedIn, flailStateDesired, flailStateChangeCountdown,
  flailStateUnstableDuration,
  colourSequenceIndex, glowDirection, zippyDirection, zippyAnimateIndex,
  decayActiveDelays, decayResetDelays, decayColourIndexes, leds,
  \* the state of random()
  randState,
  \* what the last updateAnimation wrote and read, and the locals of the
  \* last updateAnimationType
  ledWrites, seqReads, flailStateDetected, switchToAnimationType,
  \* where the program is: "setup", "updateAnimation", "updateAnimationType"
  \* ("loop" in the delay-driven sketch)
  pc,
  \* the globals of the earlier sketch, when one of them is what runs
  sketch,
  \* the environment: what drives the sensor, and the ms elapsed since setup
  driver, clock,
  \* the history of the sensor evaluations
  heldState,     \* the value detected since a flip out of a steady state
  heldMs,        \* the elapsed time of the evaluations that kept detecting it
  heldEmits,     \* the animation types emitted since that flip
  emittedKinds,  \* every animation type emitted since setup
  evaluations,   \* the number of sensor evaluations, counted to 2
  flipsSinceCommit, \* the flips since the last commit, counted to FlipCap
  desiredMs,     \* the elapsed time of the evaluations that kept detecting the
                 \* desired state since it became desired
  \* the history of the chase frames
  entryLog       \* what the last frames fed to leds[0] and leds[27]

progVars ==
  << animationType, animationTypeDelay, animationDelay,
     flailStateLockedIn, flailStateDesired, flailStateChangeCountdown,
     flailStateUnstableDuration,
     colourSequenceIndex, glowDirection, zippyDirection, zippyAnimateIndex,
     decayActiveDelays, decayResetDelays, decayColourIndexes, leds,
     randState, ledWrites, seqReads, flailStateDetected, switchToAnimationType >>

histVars ==
  << heldState, heldMs, heldEmits, emittedKinds, evaluations, flipsSinceCommit,
     desiredMs >>

vars == << progVars, deltaTime, pc, sketch, driver, clock, histVars, entryLog >>

\* The globals as one record, and the variables taking a record's values.
G ==
  [ animationType              |-> animationType,
    animationTypeDelay         |-> animationTypeDelay,
    animationDelay             |-> animationDelay,
    flailStateLockedIn         |-> flailStateLockedIn,
    flailStateDesired          |-> flailStateDesired,
    flailStateChangeCountdown  |-> flailStateChangeCountdown,
    flailStateUnstableDuration |-> flailStateUnstableDuration,
    colourSequenceIndex        |-> colourSequenceIndex,
    glowDirection              |-> glowDirection,
    zippyDirection             |-> zippyDirection,
    zippyAnimateIndex          |-> zippyAnimateIndex,
    decayActiveDelays          |-> decayActiveDelays,
    decayResetDelays           |-> decayResetDelays,
    decayColourIndexes         |-> decayColourIndexes,
    leds                       |-> leds,
    randState                  |-> randState,
    ledWrites                  |-> ledWrites,
    seqReads                   |-> seqReads,
    flailStateDetected         |-> flailStateDetected,
    switchToAnimationType      |-> switchToAnimationType ]

Becomes(r) ==
  /\ animationType' = r.animationType
  /\ animationTypeDelay' = r.animationTypeDelay
  /\ animationDelay' = r.animationDelay
  /\ flailStateLockedIn' = r.flailStateLockedIn
  /\ flailStateDesired' = r.flailStateDesired
  /\ flailStateChangeCountdown' = r.flailStateChangeCountdown
  /\ flailStateUnstableDuration' = r.flailStateUnstableDuration
  /\ colourSequenceIndex' = r.colourSequenceIndex
  /\ glowDirection' = r.glowDirection
  /\ zippyDirection' = r.zippyDirection
  /\ zippyAnimateIndex' = r.zippyAnimateIndex
  /\ decayActiveDelays' = r.decayActiveDelays
  /\ decayResetDelays' = r.decayResetDelays
  /\ decayColourIndexes' = r.decayColourIndexes
  /\ leds' = r.leds
  /\ randState' = r.randState
  /\ ledWrites' = r.ledWrites
  /\ seqReads' = r.seqReads
  /\ flailStateDetected' = r.flailStateDetected
  /\ switchToAnimationType' = r.switchToAnimationType

\* The junk a render may read past the colour table: only Zippy reads there.
Junks(type) ==
  IF type \in {ANIMATION_TYPE_ZIPPY, ANIMATION_TYPE_ZIPPY_CROSS}
    THEN [OobReads -> JunkColours]
    ELSE {[k \in OobReads |-> Black]}

\* ------------------------------------------------------------ history
\* The evaluation that took the globals from g to r, after dt ms.
HeldCap == 2 * ANIMATION_CHANGE_COOLDOWN

Emitted(r) ==
  IF r.switchToAnimationType = ANIMATION_TYPE_NONE
    THEN << >>
    ELSE << r.switchToAnimationType >>

Observe(g, r, dt) ==
  LET detected == r.flailStateDetected
      start    == g.flailStateChangeCountdown = 0 /\ detected # g.flailStateLockedIn
      held     == ~start /\ heldState = detected
  IN  /\ heldState' = IF start \/ held THEN detected ELSE FLAIL_STATE_UNKNOWN
      /\ heldMs' = IF held THEN Min(heldMs + dt, HeldCap) ELSE 0
      /\ heldEmits' = IF start THEN Emitted(r)
                      ELSE IF held THEN heldEmits \o Emitted(r) ELSE << >>
      /\ emittedKinds' = emittedKinds
                           \cup ({r.switchToAnimationType} \ {ANIMATION_TYPE_NONE})
      /\ evaluations' = Min(evaluations + 1, 2)
      /\ flipsSinceCommit' =
           IF g.flailStateDesired # FLAIL_STATE_UNKNOWN
                /\ r.flailStateDesired = FLAIL_STATE_UNKNOWN
             THEN 0
             ELSE IF r.flailStateDesired = detected
                       /\ g.flailStateDesired # detected
                    THEN Min(flipsSinceCommit + 1, FlipCap)
                    ELSE flipsSinceCommit
      /\ desiredMs' =
           IF g.flailStateDesired = detected /\ r.flailStateDesired = detected
             THEN Min(desiredMs + dt, HeldCap)
             ELSE 0

\* The chase frames since the animation was switched to: a frame of Chase or
\* OffsetChase adds what it fed to the two entry LEDs, leds[0] and leds[27];
\* the last COLOUR_SEQUENCE_SIZE + 1 frames are kept.
ChaseKinds == {ANIMATION_TYPE_CHASE, ANIMATION_TYPE_OFFSET_CHASE}

LastFrames(log) ==
  IF Len(log) > COLOUR_SEQUENCE_SIZE + 1 THEN Tail(log) ELSE log

LogFrame ==
  entryLog' =
    IF animationType \in ChaseKinds /\ ledWrites' # {}
      THEN LastFrames(Append(entryLog,
                             << leds'[LEFT_STRIP_INDEX],
                                leds'[NUM_ANIMATION_LEDS - 1] >>))
      ELSE entryLog

\* A switch of animation starts the history again.
LogSwitch ==
  entryLog' =
    IF switchToAnimationType' # ANIMATION_TYPE_NONE THEN << >> ELSE entryLog

\* ------------------------------------------------------------ the loop
InitAs(d) ==
  /\ animationType = ANIMATION_TYPE_NONE
  /\ animationTypeDelay = 0
  /\ animationDelay = 0
  /\ deltaTime = 0
  /\ flailStateLockedIn = FLAIL_STATE_UNKNOWN
  /\ flailStateDesired = FLAIL_STATE_UNKNOWN
  /\ flailStateChangeCountdown = 0
  /\ flailStateUnstableDuration = 0
  /\ colourSequenceIndex = 0
  /\ glowDirection = ANIMATION_DIRECTION_UP
  /\ zippyDirection = ANIMATION_DIRECTION_UP
  /\ zippyAnimateIndex = 0
  /\ decayActiveDelays = [i \in LedIndexes |-> 0]
  /\ decayResetDelays = [i \in LedIndexes |-> 0]
  /\ decayColourIndexes = [i \in LedIndexes |-> 0]
  /\ leds = [i \in LedIndexes |-> Black]
  /\ randState = 0
  /\ ledWrites = {}
  /\ seqReads = {}
  /\ flailStateDetected = FLAIL_STATE_UNKNOWN
  /\ switchToAnimationType = ANIMATION_TYPE_NONE
  /\ pc = "setup"
  /\ sketch = SketchOf(d)
  /\ driver = d
  /\ clock = 0
  /\ heldState = FLAIL_STATE_UNKNOWN
  /\ heldMs = 0
  /\ heldEmits = << >>
  /\ emittedKinds = {}
  /\ evaluations = 0
  /\ flipsSinceCommit = 0
  /\ desiredMs = 0
  /\ entryLog = << >>

\* setup(): the seed is the noise read from the analogue pin.
Setup ==
  /\ pc = "setup"
  /\ \E seed \in 0 .. MaxSeed : Becomes(setup(G, seed))
  /\ pc' = "updateAnimation"
  /\ entryLog' = << >>
  /\ UNCHANGED << deltaTime, driver, sketch, clock, histVars >>

\* loop(), first half: deltaTime = currentMillis - lastFrameMillis;
\* updateAnimation(deltaTime).
LoopUpdateAnimation(dt) ==
  /\ pc = "updateAnimation"
  /\ deltaTime' = dt
  /\ clock' = clock + dt
  /\ \E junk \in Junks(animationType) : Becomes(updateAnimation(G, dt, junk))
  /\ pc' = "updateAnimationType"
  /\ LogFrame
  /\ UNCHANGED << driver, sketch, histVars >>

\* loop(), second half: updateAnimationType(deltaTime), the sensor at level.
LoopUpdateAnimationType(level) ==
  /\ pc = "updateAnimationType"
  /\ LET r == updateAnimationType(G, deltaTime, level)
     IN  Becomes(r) /\ Observe(G, r, deltaTime)
  /\ pc' = "updateAnimation"
  /\ LogSwitch
  /\ UNCHANGED << deltaTime, driver, sketch, clock >>

\* ------------------------------------------------------------ free sensor
\* Any reading at every evaluation, any of DeltaTimes per iteration, for
\* MaxTime ms.
FreeDriver == [kind |-> "free", step |-> 0, first |-> LOW]

Init == InitAs(FreeDriver)

Tick == \E dt \in DeltaTimes : clock + dt <= MaxTime /\ LoopUpdateAnimation(dt)

Sense == \E level \in {LOW, HIGH} : LoopUpdateAnimationType(level)

Next == Setup \/ Tick \/ Sense

Spec == Init /\ [][Next]_vars

\* ------------------------------------------------------------ flip storm
\* The sensor value flips every 100 ms for 4200 ms; every loop iteration
\* takes driver.step ms.  The reading at an evaluation is the value at the
\* time the loop read the clock.
StormWindow == 42 * 100

StormLevel(t, first) == IF (t \div 100) % 2 = 0 THEN first ELSE 1 - first

StormInit ==
  \E step \in StepLens, first \in {LOW, HIGH} :
    InitAs([kind |-> "storm", step |-> step, first |-> first])

StormTick ==
  /\ clock + driver.step <= StormWindow
  /\ LoopUpdateAnimation(driver.step)

StormSense == LoopUpdateAnimationType(StormLevel(clock, driver.first))

StormNext == Setup \/ StormTick \/ StormSense

StormSpec == StormInit /\ [][StormNext]_vars

\* ------------------------------------------------------------ sensor tour
\* The sensor goes round for ever: Closed for 700 ms, Open for 700 ms, then
\* ten flips 100 ms apart.  The loop never stops.
TourPeriod == 700 + 700 + 1000

TourLevel(t) ==
  IF t < 700 THEN LOW
  ELSE IF t < 1400 THEN HIGH
  ELSE IF ((t - 1400) \div 100) % 2 = 0 THEN LOW ELSE HIGH

TourSteps == {20, 50}

TourInit ==
  \E step \in TourSteps : InitAs([kind |-> "tour", step |-> step, first |-> LOW])

TourTick ==
  /\ pc = "updateAnimation"
  /\ deltaTime' = driver.step
  /\ clock' = (clock + driver.step) % TourPeriod
  /\ \E junk \in Junks(animationType) :
       Becomes(updateAnimation(G, driver.step, junk))
  /\ pc' = "updateAnimationType"
  /\ LogFrame
  /\ UNCHANGED << driver, sketch, histVars >>

TourSense == LoopUpdateAnimationType(TourLevel(clock))

TourNext == Setup \/ TourTick \/ TourSense

\* loop() is called again as soon as it returns: control always moves on from
\* one half of the loop to the other.
LoopRuns ==
  pc' = IF pc = "updateAnimation" THEN "updateAnimationType" ELSE "updateAnimation"

TourSpec == TourInit /\ [][TourNext]_vars /\ WF_pc(LoopRuns)

\* ------------------------------------------------------------ sensor settling
\* The sensor goes round as in the tour and, at the start of any loop
\* iteration, settles: from then on every read returns the same level while
\* the loop goes on, driver.step ms an iteration.  The driver remembers the
\* animation that was active when the sensor settled; the clock, which only
\* places the tour, is put back to 0.
SettleLevels == {LOW, HIGH}

SettleSteps == {20}

SettleInit ==
  \E step \in SettleSteps :
    InitAs([kind |-> "tour", step |-> step, first |-> LOW])

SettleTick == driver.kind = "tour" /\ TourTick

SettleSense == driver.kind = "tour" /\ TourSense

Settle ==
  \E level \in SettleLevels :
    /\ driver.kind = "tour"
    /\ pc = "updateAnimation"
    /\ driver' = [kind |-> "steady", step |-> driver.step, first |-> level,
                  from |-> animationType]
    /\ clock' = 0
    /\ UNCHANGED << progVars, deltaTime, pc, sketch, histVars, entryLog >>

SteadyTick ==
  /\ driver.kind = "steady"
  /\ pc = "updateAnimation"
  /\ deltaTime' = driver.step
  /\ \E junk \in Junks(animationType) :
       Becomes(updateAnimation(G, driver.step, junk))
  /\ pc' = "updateAnimationType"
  /\ LogFrame
  /\ UNCHANGED << driver, sketch, clock, histVars >>

SteadySense == driver.kind = "steady" /\ LoopUpdateAnimationType(driver.first)

SettleNext ==
  Setup \/ SettleTick \/ SettleSense \/ Settle \/ SteadyTick \/ SteadySense

SettleSpec == SettleInit /\ [][SettleNext]_vars /\ WF_pc(LoopRuns)

\* ------------------------------------------------------------ renders
\* Each render function on its own: an animation type is entered as lines
\* 259-263 enter one (initAnimationType, resetLEDState) and updateAnimation
\* runs for MaxRenderTime ms, RenderDeltas ms at a time.
RenderDeltas == {0, 30}

AnimationTypes == ANIMATION_TYPE_CHASE .. ANIMATION_TYPE_DECAY

RenderInit ==
  \E type \in AnimationTypes :
    InitAs([kind |-> "render", step |-> type, first |-> LOW])

\* setup(), then the animation type driver.step is entered.
RenderEnter ==
  /\ pc = "setup"
  /\ \E seed \in 0 .. MaxSeed :
       Becomes(SwitchAnimation(
         [setup(G, seed) EXCEPT !.switchToAnimationType = driver.step]))
  /\ pc' = "updateAnimation"
  /\ entryLog' = << >>
  /\ UNCHANGED << deltaTime, driver, sketch, clock, histVars >>

RenderFrame ==
  \E dt \in RenderDeltas :
    /\ pc = "updateAnimation"
    /\ clock + dt <= MaxRenderTime
    /\ deltaTime' = dt
    /\ clock' = clock + dt
    /\ \E junk \in Junks(animationType) : Becomes(updateAnimation(G, dt, junk))
    /\ LogFrame
    /\ UNCHANGED << pc, driver, sketch, histVars >>

RenderNext == RenderEnter \/ RenderFrame

RenderSpec == RenderInit /\ [][RenderNext]_vars

\* ------------------------------------------------------------ late frames
\* The render functions when a loop iteration may overrun: LagDeltas ms at a
\* time for MaxLagTime ms, 500 ms being many frame delays and many hold
\* periods of Decay.
LagDeltas == {0, 30, 500}

LagFrame ==
  \E dt \in LagDeltas :
    /\ pc = "updateAnimation"
    /\ clock + dt <= MaxLagTime
    /\ deltaTime' = dt
    /\ clock' = clock + dt
    /\ \E junk \in Junks(animationType) : Becomes(updateAnimation(G, dt, junk))
    /\ LogFrame
    /\ UNCHANGED << pc, driver, sketch, histVars >>

LagNext == RenderEnter \/ LagFrame

LagSpec == RenderInit /\ [][LagNext]_vars

\* ------------------------------------------------------------ timer-driven sketch
\* src/unnamed/part_000 on its own: loop() runs updateAnimation and
\* updateAnimationType with an elapsed time of one Zippy frame delay or of a
\* stalled second, until the animation type has been switched MaxSwitches
\* times (driver.step counts the switches).  A write outside zippyMap is
\* undefined behaviour: the run is followed no further.
TimedDeltas == {40, 1000}

finalVars == << progVars, clock, histVars, entryLog >>

MapWritesInBounds == sketch.mapWrites \subseteq ZippyMapIndexes

TimerInit == InitAs([kind |-> "timer", step |-> 0, first |-> LOW])

TimerSetup ==
  /\ pc = "setup"
  /\ sketch.revision = "timer"
  /\ sketch' = setupTimed(sketch)
  /\ pc' = "updateAnimation"
  /\ UNCHANGED << deltaTime, driver, finalVars >>

TimerTick ==
  \E dt \in TimedDeltas :
    /\ pc = "updateAnimation"
    /\ MapWritesInBounds
    /\ driver.step < MaxSwitches
    /\ deltaTime' = dt
    /\ \E junk \in JunkColours : sketch' = updateAnimationTimed(sketch, dt, junk)
    /\ pc' = "updateAnimationType"
    /\ UNCHANGED << driver, finalVars >>

TimerSwitch ==
  /\ pc = "updateAnimationType"
  /\ MapWritesInBounds
  /\ sketch' = updateAnimationTypeTimed(sketch, deltaTime)
  /\ driver' = IF sketch'.animationType # sketch.animationType
                 THEN [driver EXCEPT !.step = @ + 1]
                 ELSE driver
  /\ pc' = "updateAnimation"
  /\ UNCHANGED << deltaTime, finalVars >>

TimerNext == TimerSetup \/ TimerTick \/ TimerSwitch

TimerSpec == TimerInit /\ [][TimerNext]_vars

\* ------------------------------------------------------------ delay-driven sketch
\* src/unnamed/part_002 on its own: loop() renders the current animation,
\* waits ANIMATION_DELAY ms and runs updateAnimationType.
DelayInit == InitAs([kind |-> "delay", step |-> 0, first |-> LOW])

DelaySetup ==
  /\ pc = "setup"
  /\ sketch.revision = "delay"
  /\ sketch' = resetLEDStateEarly(sketch)
  /\ pc' = "loop"
  /\ UNCHANGED << deltaTime, driver, finalVars >>

DelayLoop ==
  /\ pc = "loop"
  /\ \E junk \in JunkColours : sketch' = RenderDelayed(sketch, junk)
  /\ pc' = "updateAnimationType"
  /\ UNCHANGED << deltaTime, driver, finalVars >>

DelaySwitch ==
  /\ pc = "updateAnimationType"
  /\ sketch.revision = "delay"
  /\ sketch' = updateAnimationTypeDelayed(sketch)
  /\ pc' = "loop"
  /\ UNCHANGED << deltaTime, driver, finalVars >>

DelayNext == DelaySetup \/ DelayLoop \/ DelaySwitch

DelaySpec == DelayInit /\ [][DelayNext]_vars

\* ============================================================ claims
AllBlack == \A i \in LedIndexes : leds[i] = <<0, 0, 0>>

\* An evaluation has just run (the loop is back at updateAnimation).
Evaluated == pc = "updateAnimation" /\ evaluations > 0

\* The step is a sensor evaluation.
Evaluation == pc = "updateAnimationType" /\ pc' = "updateAnimation"

\* The mode a sensor state stands for in this revision.
ModeOf(state) ==
  IF state = FLAIL_STATE_CLOSED
    THEN ANIMATION_TYPE_GLOW
    ELSE ANIMATION_TYPE_OFFSET_CHASE

\* What an evaluation that is no switch leaves alone.
AnimationUnchanged ==
  UNCHANGED << animationType, animationTypeDelay, animationDelay,
               colourSequenceIndex, glowDirection, zippyDirection,
               zippyAnimateIndex, decayActiveDelays, decayResetDelays,
               decayColourIndexes, leds >>

\* C1: from a steady state (locked = X, countdown = 0) a single flip to
\* Y # X that is then held emits nothing until the held evaluations' elapsed
\* times sum to 600 ms, and from then on exactly one mode has been emitted in
\* total: Glow if Y is Closed, OffsetChase if Y is Open, with Y locked in.
C1_SingleFlipOneTransition ==
  heldState # FLAIL_STATE_UNKNOWN =>
    IF heldMs >= 600
      THEN /\ heldEmits = << ModeOf(heldState) >>
           /\ flailStateLockedIn = heldState
           /\ flailStateChangeCountdown = 0
           /\ animationType = ModeOf(heldState)
      ELSE heldEmits = << >>

\* C1 witness: out of locked Open, Closed was held over 50 ms evaluations
\* that sum to 600 ms, and Glow alone was emitted.
C1_Witness ==
  /\ Evaluated /\ deltaTime = 50
  /\ heldState = FLAIL_STATE_CLOSED /\ heldMs = 600
  /\ heldEmits = << ANIMATION_TYPE_GLOW >>
  /\ ANIMATION_TYPE_OFFSET_CHASE \in emittedKinds

\* C3: an evaluation that detects the desired state commits when the
\* countdown less the elapsed time is <= 0 (locked takes the old desired
\* state, desired is Unknown, score and countdown are 0, Glow is emitted for
\* Closed and OffsetChase for Open); otherwise it only decrements the
\* countdown and emits nothing.
C3_CommitStep ==
  [][ (Evaluation /\ flailStateDetected' = flailStateDesired) =>
        IF flailStateChangeCountdown - deltaTime <= 0
          THEN /\ flailStateLockedIn' = flailStateDesired
               /\ flailStateDesired' = FLAIL_STATE_UNKNOWN
               /\ flailStateUnstableDuration' = 0
               /\ flailStateChangeCountdown' = 0
               /\ switchToAnimationType' = ModeOf(flailStateDesired)
               /\ animationType' = ModeOf(flailStateDesired)
          ELSE /\ flailStateChangeCountdown' = flailStateChangeCountdown - deltaTime
               /\ switchToAnimationType' = ANIMATION_TYPE_NONE
               /\ UNCHANGED << flailStateLockedIn, flailStateDesired,
                               flailStateUnstableDuration >>
               /\ AnimationUnchanged ]_vars

\* C3 witness: a commit of Open has just emitted OffsetChase over a Glow
\* that was running.
C3_Witness ==
  /\ Evaluated
  /\ switchToAnimationType = ANIMATION_TYPE_OFFSET_CHASE
  /\ flailStateLockedIn = FLAIL_STATE_OPEN
  /\ flailStateDesired = FLAIL_STATE_UNKNOWN
  /\ ANIMATION_TYPE_GLOW \in emittedKinds

\* C4: an evaluation that detects the locked state while no countdown runs
\* changes nothing of the mode selector, the animation or the LED buffer,
\* whatever the elapsed time.
C4_SteadyNoOp ==
  [][ (Evaluation /\ flailStateDetected' = flailStateLockedIn
         /\ flailStateChangeCountdown = 0) =>
        /\ UNCHANGED << flailStateLockedIn, flailStateDesired,
                        flailStateChangeCountdown, flailStateUnstableDuration >>
        /\ AnimationUnchanged ]_vars

\* C4 witness: 600 ms after the last loop, an evaluation in the steady state
\* of a running Glow emitted nothing.
C4_Witness ==
  /\ Evaluated /\ deltaTime = 600
  /\ flailStateDetected = flailStateLockedIn
  /\ flailStateLockedIn = FLAIL_STATE_CLOSED
  /\ flailStateChangeCountdown = 0
  /\ switchToAnimationType = ANIMATION_TYPE_NONE
  /\ animationType = ANIMATION_TYPE_GLOW

\* C5: an evaluation that takes the flip branch emits Decay exactly when the
\* accumulated score is > 350 and the active mode is not Decay; it emits
\* nothing else and leaves the locked state alone.
C5_DecayEscape ==
  [][ (Evaluation
         /\ ~(flailStateDetected' = flailStateLockedIn
                /\ flailStateChangeCountdown = 0)
         /\ flailStateDetected' # flailStateDesired) =>
        /\ (switchToAnimationType' = ANIMATION_TYPE_DECAY) <=>
             (flailStateUnstableDuration' > 350
                /\ animationType # ANIMATION_TYPE_DECAY)
        /\ switchToAnimationType' \in {ANIMATION_TYPE_DECAY, ANIMATION_TYPE_NONE}
        /\ animationType' = (IF switchToAnimationType' = ANIMATION_TYPE_DECAY
                               THEN ANIMATION_TYPE_DECAY ELSE animationType)
        /\ flailStateDesired' = flailStateDetected'
        /\ flailStateLockedIn' = flailStateLockedIn ]_vars

\* C5 witness: a flip has just emitted Decay over a locked state, the
\* countdown re-armed.
C5_Witness ==
  /\ Evaluated
  /\ switchToAnimationType = ANIMATION_TYPE_DECAY
  /\ animationType = ANIMATION_TYPE_DECAY
  /\ flailStateUnstableDuration > 350
  /\ flailStateLockedIn # FLAIL_STATE_UNKNOWN
  /\ flailStateChangeCountdown = 600

\* C7: while a state is locked in and the mode is not Decay, the active
\* animation is the locked state's (Glow for Closed, OffsetChase for Open),
\* also while a candidate state counts down.
C7_RendersLockedState ==
  (flailStateLockedIn \in {FLAIL_STATE_OPEN, FLAIL_STATE_CLOSED}
     /\ animationType # ANIMATION_TYPE_DECAY) =>
    animationType = (IF flailStateLockedIn = FLAIL_STATE_CLOSED
                       THEN ANIMATION_TYPE_GLOW
                       ELSE ANIMATION_TYPE_OFFSET_CHASE)

\* C7 witness: Glow has rendered a frame while the candidate Open is
\* counting down over locked Closed.
C7_Witness ==
  /\ pc = "updateAnimationType"
  /\ flailStateLockedIn = FLAIL_STATE_CLOSED
  /\ flailStateDesired = FLAIL_STATE_OPEN
  /\ flailStateChangeCountdown \in 1 .. 599
  /\ animationType = ANIMATION_TYPE_GLOW
  /\ ledWrites # {}

\* A mode has just been emitted and no render of it has run yet.
Emitting == Evaluated /\ switchToAnimationType # ANIMATION_TYPE_NONE

FrameDelayOf(type) ==
  CASE type = ANIMATION_TYPE_GLOW -> 45
    [] type = ANIMATION_TYPE_OFFSET_CHASE -> 40
    [] type = ANIMATION_TYPE_DECAY -> 0
    [] OTHER -> -1

DecayFresh ==
  \A i \in LedIndexes :
    /\ decayActiveDelays[i] = decayResetDelays[i]
    /\ decayResetDelays[i] \in {35, 40, 45, 50, 55, 60}
    /\ decayColourIndexes[i] \in 0 .. 8

\* C6 as stated: on every emission the LEDs are black, both delays are the
\* mode's frame delay, and the mode's cursor state is initial: colour index 0
\* and direction up for Glow and for the chase, fresh per-LED state for Decay.
C6_EmissionResets ==
  Emitting =>
    /\ AllBlack
    /\ animationType = switchToAnimationType
    /\ animationDelay = FrameDelayOf(animationType)
    /\ animationTypeDelay = FrameDelayOf(animationType)
    /\ animationType \in {ANIMATION_TYPE_GLOW, ANIMATION_TYPE_OFFSET_CHASE} =>
         (colourSequenceIndex = 0 /\ glowDirection = ANIMATION_DIRECTION_UP)
    /\ animationType = ANIMATION_TYPE_DECAY => DecayFresh

\* C6 amended: as C6, the direction being up on an emission of Glow only; an
\* emission of OffsetChase resets the colour index and leaves glowDirection,
\* which the chase never reads, as Glow left it.
C6_EmissionResetsOwnState ==
  Emitting =>
    /\ AllBlack
    /\ animationType = switchToAnimationType
    /\ animationDelay = FrameDelayOf(animationType)
    /\ animationTypeDelay = FrameDelayOf(animationType)
    /\ animationType \in {ANIMATION_TYPE_GLOW, ANIMATION_TYPE_OFFSET_CHASE} =>
         colourSequenceIndex = 0
    /\ animationType = ANIMATION_TYPE_GLOW =>
         glowDirection = ANIMATION_DIRECTION_UP
    /\ animationType = ANIMATION_TYPE_DECAY => DecayFresh

\* C6 witness: Decay has just been emitted over a Glow that had rendered.
C6_Witness ==
  /\ Emitting
  /\ animationType = ANIMATION_TYPE_DECAY
  /\ flailStateLockedIn = FLAIL_STATE_CLOSED
  /\ AllBlack /\ DecayFresh

C2_FlipStormDecay ==
  /\ emittedKinds \subseteq {ANIMATION_TYPE_DECAY}
  /\ (clock = StormWindow /\ Evaluated) =>
       /\ emittedKinds = {ANIMATION_TYPE_DECAY}
       /\ animationType = ANIMATION_TYPE_DECAY
       /\ flailStateUnstableDuration > ANIMATION_CHANGE_UNSTABLE

\* The animation kinds the sensor-driven loop switches between.
SensorKinds ==
  {ANIMATION_TYPE_OFFSET_CHASE, ANIMATION_TYPE_GLOW, ANIMATION_TYPE_DECAY}

\* C9 as stated (TourSpec): each of the seven animation kinds is reached
\* again and again as the active kind, from whichever kind is active.
C9_AllKindsReachable ==
  \A kind \in AnimationTypes : []<>(animationType = kind)

\* C9 amended (TourSpec): the active kind is only ever OffsetChase, Glow or
\* Decay (ANIMATION_TYPE_NONE before the first switch), and each of these
\* three is reached again and again, so from each of the other two.
C9_SensorKindsReachable ==
  /\ [](animationType \in SensorKinds \cup {ANIMATION_TYPE_NONE})
  /\ \A kind \in SensorKinds : []<>(animationType = kind)

\* C9 witness: all three kinds have been emitted and the tour is back in
\* Glow, entered from Decay.
C9_Witness ==
  /\ emittedKinds = SensorKinds
  /\ Emitting
  /\ animationType = ANIMATION_TYPE_GLOW

\* C10 (RenderSpec): every index a render function writes leds[] at is in
\* 0 .. NUM_ANIMATION_LEDS - 1.
C10_WritesInBounds == ledWrites \subseteq LedIndexes

\* C10 witness: a Zippy frame on the way down, past the strip length, has
\* written both ends of the buffer.
C10_Witness ==
  /\ animationType \in {ANIMATION_TYPE_ZIPPY, ANIMATION_TYPE_ZIPPY_CROSS}
  /\ zippyDirection = ANIMATION_DIRECTION_DOWN
  /\ zippyAnimateIndex > LEDS_PER_STRIP
  /\ 0 \in ledWrites
  /\ (NUM_ANIMATION_LEDS - 1) \in ledWrites

\* C11 (RenderSpec): every index a render function reads colourSequence[] at
\* is in 0 .. COLOUR_SEQUENCE_SIZE - 1, whatever the animation kind and cursor.
C11_ReadsInBounds == seqReads \subseteq SeqIndexes

\* Glow or Cross is the active animation.
PingPongKind == animationType \in {ANIMATION_TYPE_GLOW, ANIMATION_TYPE_CROSS}

\* C12 (RenderSpec): while Glow or Cross is active, from the entry of the
\* mode and after every render, colourSequenceIndex is in
\* 0 .. COLOUR_SEQUENCE_SIZE - 1 and glowDirection is +1 or -1.
C12_CursorInRange ==
  PingPongKind =>
    /\ colourSequenceIndex \in SeqIndexes
    /\ glowDirection \in {ANIMATION_DIRECTION_UP, ANIMATION_DIRECTION_DOWN}

\* C12 witness: Cross has just turned round at the top of the sequence.
C12_Witness ==
  /\ animationType = ANIMATION_TYPE_CROSS
  /\ ledWrites = LedIndexes
  /\ colourSequenceIndex = COLOUR_SEQUENCE_SIZE - 1
  /\ glowDirection = ANIMATION_DIRECTION_DOWN

\* The step renders a frame of the active animation.
RenderedFrame == animationType' = animationType /\ ledWrites' # {}

\* C13 (RenderSpec): in Glow and Cross the colour index rendered on the next
\* frame is the ping-pong successor of the one just rendered: every end value
\* is rendered on one frame per visit (from M-1 the next is M-2, from 0 the
\* next is 1) and the direction flips exactly there.
C13_PingPongFrames ==
  [][(PingPongKind /\ RenderedFrame) =>
       IF colourSequenceIndex = COLOUR_SEQUENCE_SIZE - 1
         THEN /\ colourSequenceIndex' = COLOUR_SEQUENCE_SIZE - 2
              /\ glowDirection' = ANIMATION_DIRECTION_DOWN
         ELSE IF colourSequenceIndex = 0
           THEN /\ colourSequenceIndex' = 1
                /\ glowDirection' = ANIMATION_DIRECTION_UP
           ELSE /\ colourSequenceIndex' = colourSequenceIndex + glowDirection
                /\ glowDirection' = glowDirection]_vars

\* Chase or OffsetChase is the active animation.
ChaseKind == animationType \in ChaseKinds

\* C14 (RenderSpec): a frame of Chase or OffsetChase moves every colour one
\* LED up its strip (leds[i + 1] takes leds[i] on the left, leds[14 + i]
\* takes leds[15 + i] on the right), and what it feeds to leds[0] and
\* leds[27] is what the frame COLOUR_SEQUENCE_SIZE frames earlier fed them.
C14_ChasePeriod ==
  [][(ChaseKind /\ RenderedFrame) =>
       /\ \A i \in 0 .. (LEDS_PER_STRIP - 2) :
            /\ leds'[i + 1] = leds[i]
            /\ leds'[RIGHT_STRIP_INDEX + i] = leds[RIGHT_STRIP_INDEX + i + 1]
       /\ Len(entryLog') = COLOUR_SEQUENCE_SIZE + 1 =>
            entryLog'[1] = entryLog'[COLOUR_SEQUENCE_SIZE + 1]]_vars

\* C14 witness: OffsetChase has rendered more than COLOUR_SEQUENCE_SIZE
\* frames and has just fed colour 4 of the sequence to leds[0] again.
C14_Witness ==
  /\ animationType = ANIMATION_TYPE_OFFSET_CHASE
  /\ ledWrites # {}
  /\ Len(entryLog) = COLOUR_SEQUENCE_SIZE + 1
  /\ entryLog[1] = entryLog[COLOUR_SEQUENCE_SIZE + 1]
  /\ leds[LEFT_STRIP_INDEX] = colourSequence[4]
  /\ leds[COLOUR_SEQUENCE_SIZE] = colourSequence[4]
  /\ leds[NUM_ANIMATION_LEDS - 1] # Black

\* C15 (RenderSpec): a frame of Cross sets every LED of the left strip to
\* colourSequence[cursor] and every LED of the right strip to
\* colourSequence[COLOUR_SEQUENCE_SIZE - 1 - cursor], cursor being
\* colourSequenceIndex before the frame advances it.
C15_CrossMirrors ==
  [][(animationType = ANIMATION_TYPE_CROSS /\ RenderedFrame) =>
       \A i \in 0 .. (LEDS_PER_STRIP - 1) :
         /\ leds'[i] = colourSequence[colourSequenceIndex]
         /\ leds'[RIGHT_STRIP_INDEX + i] =
              colourSequence[(COLOUR_SEQUENCE_SIZE - 1) - colourSequenceIndex]]_vars

\* C15 witness: Cross has rendered cursor 6 on the way up: colour 6 on the
\* left strip, colour 4 on the right.
C15_Witness ==
  /\ animationType = ANIMATION_TYPE_CROSS
  /\ ledWrites = LedIndexes
  /\ colourSequenceIndex = 7
  /\ glowDirection = ANIMATION_DIRECTION_UP
  /\ \A i \in 0 .. (LEDS_PER_STRIP - 1) :
       leds[i] = colourSequence[6] /\ leds[RIGHT_STRIP_INDEX + i] = colourSequence[4]

\* C16 (RenderSpec): in OffsetChase the cursor is in
\* 0 .. COLOUR_SEQUENCE_SIZE - 1 and so is the colour index of the right
\* strip worked out from it; a frame reads colourSequence[] nowhere else.
C16_OffsetIndexInRange ==
  animationType = ANIMATION_TYPE_OFFSET_CHASE =>
    /\ colourSequenceIndex \in SeqIndexes
    /\ RightLEDStripColourIndex(colourSequenceIndex, TRUE) \in SeqIndexes
    /\ seqReads \subseteq SeqIndexes

\* C16 witness: the OffsetChase frame of cursor 4, the first whose offset
\* index 11 is past the sequence, has read the colours 4 and 1.
C16_Witness ==
  /\ animationType = ANIMATION_TYPE_OFFSET_CHASE
  /\ ledWrites # {}
  /\ colourSequenceIndex = 5
  /\ seqReads = {4, 1}

\* C17 (RenderSpec): a frame of OffsetChase feeds the right strip the colour
\* index (cursor + COLOUR_SEQUENCE_SIZE_SHORT) mod COLOUR_SEQUENCE_SIZE, the
\* left strip's index shifted by seven places round the sequence.
C17_OffsetIsPhaseShift ==
  [][(animationType = ANIMATION_TYPE_OFFSET_CHASE /\ RenderedFrame) =>
       seqReads' =
         { colourSequenceIndex,
           (colourSequenceIndex + COLOUR_SEQUENCE_SIZE_SHORT)
              % COLOUR_SEQUENCE_SIZE }]_vars

\* The step is an update of the Decay animation.
DecayUpdate == animationType = ANIMATION_TYPE_DECAY /\ animationType' = animationType

\* C18 (RenderSpec): in Decay every LED's colour index goes up through the
\* whole sequence: an update keeps it or adds one to it, and takes it back to
\* 0 only from the last index, COLOUR_SEQUENCE_SIZE - 1.
C18_DecayVisitsAll ==
  [][DecayUpdate =>
       \A i \in LedIndexes :
         \/ decayColourIndexes'[i] = decayColourIndexes[i]
         \/ /\ decayColourIndexes[i] < COLOUR_SEQUENCE_SIZE - 1
            /\ decayColourIndexes'[i] = decayColourIndexes[i] + 1
         \/ /\ decayColourIndexes[i] = COLOUR_SEQUENCE_SIZE - 1
            /\ decayColourIndexes'[i] = 0]_vars

\* The step is a call of animationDecay: in Decay the frame is due whenever
\* the delay is not above zero after the update.
DecayCall == DecayUpdate /\ animationDelay' <= 0

\* C19 (RenderSpec): one animationDecay call, whatever deltaTime: an LED
\* whose countdown is still above zero keeps its colour index, its reset
\* duration and its colour, the countdown less by deltaTime; any other LED
\* goes on by one colour index (or back to 0), takes that colour, and its
\* countdown is its reset duration exactly.
C19_DecayOneStep ==
  [][DecayCall =>
       \A i \in LedIndexes :
         LET left == decayActiveDelays[i] - deltaTime'
         IN  IF left > 0
               THEN /\ decayActiveDelays'[i] = left
                    /\ decayColourIndexes'[i] = decayColourIndexes[i]
                    /\ decayResetDelays'[i] = decayResetDelays[i]
                    /\ leds'[i] = leds[i]
               ELSE /\ \/ decayColourIndexes'[i] = decayColourIndexes[i] + 1
                       \/ decayColourIndexes'[i] = 0
                    /\ decayActiveDelays'[i] = decayResetDelays'[i]
                    /\ leds'[i] = colourSequence[decayColourIndexes'[i]]]_vars

\* C19 witness: a Decay call after 500 ms, many hold periods, has moved every
\* LED on and reloaded every countdown.
C19_Witness ==
  /\ animationType = ANIMATION_TYPE_DECAY
  /\ deltaTime = 500
  /\ ledWrites = LedIndexes
  /\ \A i \in LedIndexes : decayActiveDelays[i] = decayResetDelays[i]

\* The step is a call of updateAnimation with no time elapsed.
ZeroElapsedCall == pc = "updateAnimation" /\ deltaTime' = 0

\* C20 (Spec): a call of updateAnimation with zero elapsed time leaves the
\* LED buffer and every cursor as they were, whatever the animation kind.
C20_ZeroElapsedNoChange ==
  [][ZeroElapsedCall =>
       /\ leds' = leds
       /\ colourSequenceIndex' = colourSequenceIndex
       /\ glowDirection' = glowDirection
       /\ zippyDirection' = zippyDirection
       /\ zippyAnimateIndex' = zippyAnimateIndex
       /\ decayColourIndexes' = decayColourIndexes
       /\ decayActiveDelays' = decayActiveDelays
       /\ decayResetDelays' = decayResetDelays]_vars

\* The evaluation took the flip branch, seen by its effects: the countdown
\* was restarted, the unstable duration grew, or a new state became desired.
FlipTaken ==
  /\ Evaluation
  /\ \/ flailStateChangeCountdown' > flailStateChangeCountdown
     \/ flailStateUnstableDuration' > flailStateUnstableDuration
     \/ /\ flailStateDesired' # flailStateDesired
        /\ flailStateDesired' # FLAIL_STATE_UNKNOWN

\* C21 as stated: the flip branch is taken only when the detected state
\* differs from both the locked and the desired state, so a reading equal to
\* the locked state never restarts the countdown or adds instability.
C21_FlipOnlyOnNewState ==
  [][FlipTaken =>
       /\ flailStateDetected' # flailStateLockedIn
       /\ flailStateDetected' # flailStateDesired]_vars

\* C21 amended: the flip branch is taken only when the detected state
\* differs from the desired state; a reading equal to the locked state
\* restarts the countdown or adds instability only while a countdown to the
\* other state is pending, never when the countdown is 0.
C21_FlipOnlyOffDesired ==
  [][FlipTaken =>
       /\ flailStateDetected' # flailStateDesired
       /\ flailStateDetected' = flailStateLockedIn =>
            /\ flailStateChangeCountdown # 0
            /\ flailStateDesired # FLAIL_STATE_UNKNOWN]_vars

\* C21 witness: while a change was pending the reading went back to the
\* locked state, which restarted the countdown and added instability.
C21_Witness ==
  /\ Evaluated
  /\ flailStateLockedIn # FLAIL_STATE_UNKNOWN
  /\ flailStateDetected = flailStateLockedIn
  /\ flailStateDesired = flailStateLockedIn
  /\ flailStateChangeCountdown = ANIMATION_CHANGE_COOLDOWN
  /\ flailStateUnstableDuration >= 90

\* The evaluation is a flip: the reading is off the desired state and the
\* early return of line 218 does not apply.
FlipStep ==
  /\ Evaluation
  /\ flailStateDetected' # flailStateDesired
  /\ ~(flailStateDetected' = flailStateLockedIn
         /\ flailStateChangeCountdown = 0)

\* C22: on each flip the unstable duration grows by (1 - c/600) * 45 for the
\* countdown c left at the flip, in proportion to c (to within 1 of the
\* exact value: about 22 for c = 300, 45 for c = 0, 0 for c = 600).
C22_GrowthProportional ==
  [][FlipStep =>
       LET c      == flailStateChangeCountdown
           growth == flailStateUnstableDuration' - flailStateUnstableDuration
           exact  == (ANIMATION_CHANGE_COOLDOWN - c) * 45
           off    == ANIMATION_CHANGE_COOLDOWN * growth - exact
       IN  /\ c \in 0..ANIMATION_CHANGE_COOLDOWN
           /\ off <= ANIMATION_CHANGE_COOLDOWN
           /\ -off <= ANIMATION_CHANGE_COOLDOWN]_vars

\* The timer-driven sketch is rendering OffsetChase.
TimedOffsetChase ==
  /\ sketch.revision = "timer"
  /\ pc # "setup"
  /\ sketch.animationType = ANIMATION_TYPE_OFFSET_CHASE

\* C23 (TimerSpec): in the earlier revisions the OffsetChase cursor is in
\* 0 .. COLOUR_SEQUENCE_SIZE - 1 and the colour index of the second strip
\* (cursor + 7, brought back by COLOUR_SEQUENCE_SIZE - 1) is too, in each of
\* the three sketches, so no frame reads colourSequence past its last entry.
C23_EarlyOffsetInBounds ==
  TimedOffsetChase =>
    LET cursor == sketch.colourSequenceIndex
    IN  /\ cursor \in SeqIndexes
        /\ offsetIndexTimed(cursor) \in SeqIndexes
        /\ rightLEDStripColourIndexEarly(cursor, TRUE) \in SeqIndexes
        /\ offsetIndexDelayed(cursor) \in SeqIndexes
        /\ sketch.seqReads \subseteq SeqIndexes

\* C24 (TimerSpec): every index at which a Zippy or ZippyCross frame writes
\* zippyMap (zippyMapIndex - i going up, zippyMapIndex + i going down) is in
\* 0 .. 28, whatever frames and timed switches came before, the re-entry
\* that turns zippyMapDirection up and keeps zippyMapIndex included.
C24_ZippyMapWritesInBounds ==
  sketch.revision = "timer" =>
    \A k \in sketch.mapWrites : 0 <= k /\ k < ZIPPY_MAP_SIZE

\* The delay-driven sketch has rendered Cross frames since Cross was entered.
DelayedCrossShown ==
  /\ sketch.revision = "delay"
  /\ sketch.animationType = ANIMATION_TYPE_CROSS
  /\ pc = "updateAnimationType"

\* C25 (DelaySpec): in the delay-driven sketch each Cross render writes
\* every LED of both strips, the 7 left LEDs with colourSequence[cursor] and
\* the 7 right LEDs with colourSequence[COLOUR_SEQUENCE_SIZE - 1 - cursor].
C25_CrossWritesEveryLED ==
  DelayedCrossShown => sketch.ledWrites = EarlyLedIndexes

\* C26: while Decay is the active animation a flip emits nothing and leaves
\* the animation, its per-LED state and the LEDs as they are, however high
\* the unstable duration has grown; Decay is left only by an evaluation that
\* commits the desired state and emits Glow or OffsetChase.
C26_DecayHeldThroughFlips ==
  [][animationType = ANIMATION_TYPE_DECAY =>
       /\ FlipStep =>
            /\ switchToAnimationType' = ANIMATION_TYPE_NONE
            /\ AnimationUnchanged
       /\ animationType' # ANIMATION_TYPE_DECAY =>
            /\ Evaluation
            /\ flailStateDetected' = flailStateDesired
            /\ flailStateLockedIn' = flailStateDesired
            /\ flailStateChangeCountdown' = 0
            /\ switchToAnimationType' = ModeOf(flailStateLockedIn')
            /\ animationType' = switchToAnimationType']_vars

\* C26 witness: Decay has been rendering and a further flip has taken the
\* unstable duration beyond the value that started it, the LEDs still lit.
C26_Witness ==
  /\ Evaluated
  /\ animationType = ANIMATION_TYPE_DECAY
  /\ switchToAnimationType = ANIMATION_TYPE_NONE
  /\ flailStateChangeCountdown = ANIMATION_CHANGE_COOLDOWN
  /\ flailStateUnstableDuration >= ANIMATION_CHANGE_UNSTABLE + 2 * 45
  /\ ~AllBlack

\* C27: Decay is never emitted with fewer than 8 flips since the last commit
\* or since setup: the unstable duration is at most 45 times the number of
\* those flips (a flip adds at most 45, a commit resets it to 0, nothing
\* else changes it), and Decay is emitted only above 350.
C27_DecayNeedsEightFlips ==
  /\ flipsSinceCommit < FlipCap =>
       flailStateUnstableDuration \in 0 .. 45 * flipsSinceCommit
  /\ Emitting /\ switchToAnimationType = ANIMATION_TYPE_DECAY =>
       /\ flailStateUnstableDuration > ANIMATION_CHANGE_UNSTABLE
       /\ flipsSinceCommit >= 8

\* C27 witness: the eighth flip since the commit has just emitted Decay, at
\* an unstable duration of 8 * 45.
C27_Witness ==
  /\ Emitting
  /\ switchToAnimationType = ANIMATION_TYPE_DECAY
  /\ flipsSinceCommit = 8
  /\ flailStateUnstableDuration = 360
  /\ flailStateLockedIn # FLAIL_STATE_UNKNOWN

\* The countdown and the desired state agree: the countdown is in 0 .. 600
\* and no state is desired exactly when it is 0.
CountdownMatchesDesired ==
  /\ flailStateChangeCountdown \in 0 .. ANIMATION_CHANGE_COOLDOWN
  /\ (flailStateDesired = FLAIL_STATE_UNKNOWN) <=> (flailStateChangeCountdown = 0)

\* C28: in every reachable state the countdown is in 0 .. 600, the desired
\* state is Unknown exactly when the countdown is 0, and the locked state,
\* once it has left Unknown, is never Unknown again.
C28_SelectorInvariant ==
  /\ []CountdownMatchesDesired
  /\ [][flailStateLockedIn # FLAIL_STATE_UNKNOWN =>
          flailStateLockedIn' # FLAIL_STATE_UNKNOWN]_vars

\* C28 witness: over a locked state a countdown to the other state is part
\* run, after an evaluation.
C28_Witness ==
  /\ Evaluated
  /\ flailStateLockedIn = FLAIL_STATE_OPEN
  /\ flailStateDesired = FLAIL_STATE_CLOSED
  /\ flailStateChangeCountdown \in 1 .. (ANIMATION_CHANGE_COOLDOWN - 1)

\* C29: the locked state changes, and Glow or OffsetChase is emitted, only
\* in an evaluation that detects the desired state and with which the
\* elapsed times of the consecutive evaluations detecting that state since
\* it became desired sum to at least 600 ms; a sensor that holds no value
\* for 600 ms of accumulated time never changes the locked state.
C29_DebounceSafety ==
  [][(\/ flailStateLockedIn' # flailStateLockedIn
      \/ /\ Evaluation
         /\ switchToAnimationType' \in
              {ANIMATION_TYPE_GLOW, ANIMATION_TYPE_OFFSET_CHASE}) =>
       /\ Evaluation
       /\ flailStateDetected' = flailStateDesired
       /\ desiredMs + deltaTime >= ANIMATION_CHANGE_COOLDOWN]_vars

\* C29 witness: Closed has just been locked in over Open by an evaluation
\* 50 ms long, the last of those that summed to 600 ms.
C29_Witness ==
  /\ Emitting
  /\ switchToAnimationType = ANIMATION_TYPE_GLOW
  /\ flailStateLockedIn = FLAIL_STATE_CLOSED
  /\ heldState = FLAIL_STATE_CLOSED
  /\ heldMs = ANIMATION_CHANGE_COOLDOWN
  /\ deltaTime = 50

\* The sensor has settled and the settled state is locked in, no countdown
\* pending and its animation active.
SettledIn ==
  /\ driver.kind = "steady"
  /\ flailStateLockedIn = FlailStateDetected(driver.first)
  /\ flailStateChangeCountdown = 0
  /\ animationType = ModeOf(FlailStateDetected(driver.first))

\* C30 (SettleSpec): while Decay is active a countdown is pending (the
\* countdown above 0, a state desired), and once the sensor stays at one
\* state s while time advances, eventually s is locked in, the countdown is
\* 0 and the animation of s is active: neither Decay nor
\* ANIMATION_TYPE_NONE lasts for ever under a steady sensor.
C30_SteadySensorSettles ==
  /\ [](animationType = ANIMATION_TYPE_DECAY =>
          /\ flailStateChangeCountdown > 0
          /\ flailStateDesired # FLAIL_STATE_UNKNOWN)
  /\ (driver.kind = "steady") ~> SettledIn

\* C30 witness: the sensor settled while Decay was active and its state has
\* been locked in since, with the animation of that state running.
C30_Witness ==
  /\ SettledIn
  /\ driver.from = ANIMATION_TYPE_DECAY
  /\ Evaluated

\* C31: while the active animation is not Decay, a commit emits an animation
\* (restarting it and clearing the LEDs) only if the newly locked state
\* differs from the one locked before; a blip to the other sensor value
\* that is gone before it commits emits nothing and clears nothing.
C31_CommitEmitsOnlyOnChange ==
  [][(/\ Evaluation
      /\ animationType # ANIMATION_TYPE_DECAY
      /\ switchToAnimationType' \in
           {ANIMATION_TYPE_GLOW, ANIMATION_TYPE_OFFSET_CHASE}) =>
       flailStateLockedIn' # flailStateLockedIn]_vars

\* ------------------------------------------------------------ long flailing
\* The flail keeps moving: the sensor value flips every 100 ms, as in the
\* flip storm, for MaxFlailTime ms, and every loop iteration takes 50 ms.
\* No reading is held for the cooldown, so nothing is committed and Decay,
\* once switched to, stays the active animation.
FlailSteps == {50}

FlailInit ==
  \E step \in FlailSteps, first \in {LOW, HIGH} :
    InitAs([kind |-> "flail", step |-> step, first |-> first])

FlailTick ==
  /\ clock + driver.step <= MaxFlailTime
  /\ LoopUpdateAnimation(driver.step)

FlailSense == LoopUpdateAnimationType(StormLevel(clock, driver.first))

FlailNext == Setup \/ FlailTick \/ FlailSense

FlailSpec == FlailInit /\ [][FlailNext]_vars

\* The values an int of the target holds.
Int16 == -32768 .. 32767

\* The step is loop()'s call of updateAnimation.
AnimationUpdate == pc = "updateAnimation" /\ pc' = "updateAnimationType"

\* The evaluation counts the countdown down: the reading is the desired
\* state and the early return of line 218 does not apply.
CountdownStep ==
  /\ Evaluation
  /\ flailStateDetected' = flailStateDesired
  /\ ~(flailStateDetected' = flailStateLockedIn
         /\ flailStateChangeCountdown = 0)

\* C32: no int variable overflows in any run: what the arithmetic on
\* animationDelay (less the elapsed time every loop, plus animationTypeDelay
\* on a frame), on flailStateUnstableDuration (grown on a flip) and on
\* flailStateChangeCountdown (less the elapsed time) yields is always a value
\* of a 16-bit signed int, whatever the sensor does and however long the
\* run is.
C32_NoIntOverflow ==
  [][/\ AnimationUpdate =>
          /\ animationDelay - deltaTime' \in Int16
          /\ FrameDue(ToInt16(animationDelay - deltaTime')) =>
               ToInt16(animationDelay - deltaTime') + animationTypeDelay'
                 \in Int16
     /\ FlipStep =>
          flailStateUnstableDuration
            + UnstableGrowth(flailStateChangeCountdown) \in Int16
     /\ CountdownStep =>
          flailStateChangeCountdown - deltaTime \in Int16]_vars

=============================================================================
